---- MODULE Spec2Model ----
(***************************************************************************)
(* Established-state TCP engine of catnip: Sender, Receiver, the CUBIC     *)
(* congestion controller, the retransmitter task and the ARP gate.         *)
(*                                                                         *)
(* Sequence numbers are Wrapping<u32> in the source.  TLC's integers are   *)
(* 32-bit signed, so the machine word is modelled SeqBits wide: every u32  *)
(* operation of the source is taken modulo SeqMod = 2^SeqBits, u32::MAX is *)
(* U32Max = SeqMod - 1 and the sign bit is Half = SeqMod / 2.  Time is     *)
(* counted in ticks of half a second (the delayed-ACK interval).           *)
(***************************************************************************)
EXTENDS Integers, Sequences, FiniteSets, TLC

\* ------------------------------------------------------------------ bounds
SeqBits == 5
MssBytes == 2
MaxCalls == 3
MaxTime == 2
MaxArpEvents == 2

SeqMod == 2 ^ SeqBits
U32Max == SeqMod - 1
Half == SeqMod \div 2

\* ------------------------------------------------- Wrapping<u32> arithmetic
WAdd(a, b) == (a + b) % SeqMod
WSub(a, b) == (a - b) % SeqMod
\* The difference of two sequence numbers read as a signed word.
Signed(d) == IF d >= Half THEN d - SeqMod ELSE d
Min(a, b) == IF a <= b THEN a ELSE b
Max(a, b) == IF a >= b THEN a ELSE b

NoInstant == -1

\* ------------------------------------------------------------------- Bytes
\* A Bytes value is a slice of the buffer handed to one send call: the call's
\* number, the offset of the slice in that buffer and its length.
MkBytes(id, len) == [id |-> id, off |-> 0, len |-> len]
\* Bytes::split(n) -> (head, tail)
SplitHead(b, n) == [id |-> b.id, off |-> b.off, len |-> n]
SplitTail(b, n) == [id |-> b.id, off |-> b.off + n, len |-> b.len - n]
\* The bytes of a slice, each named by (call, position).
Contents(b) == [i \in 1..b.len |-> <<b.id, b.off + i - 1>>]

RECURSIVE SumLen(_)
SumLen(q) == IF q = <<>> THEN 0 ELSE Head(q).len + SumLen(Tail(q))

RECURSIVE Flatten(_)
Flatten(q) == IF q = <<>> THEN <<>> ELSE Contents(Head(q)) \o Flatten(Tail(q))

SegBytes(q) == [i \in 1..Len(q) |-> q[i].bytes]

\* ------------------------------------------------------ RTO calculator (4.4)
\* [1 s, 60 s] in ticks
RtoLowerBound == 2
RtoUpperBound == 120
ClampRto(x) == Max(RtoLowerBound, Min(RtoUpperBound, x))
AbsDiff(a, b) == IF a >= b THEN a - b ELSE b - a

RtoNew == [srtt |-> 0, rttvar |-> 0, rto |-> RtoLowerBound, has_sample |-> FALSE]

RtoEstimate(r) == r.rto

RtoAddSample(r, rtt) ==
    IF ~r.has_sample
    THEN [srtt |-> rtt, rttvar |-> rtt \div 2,
          rto |-> ClampRto(rtt + 4 * (rtt \div 2)), has_sample |-> TRUE]
    ELSE LET rttvar == (3 * r.rttvar + AbsDiff(r.srtt, rtt)) \div 4
             srtt == (7 * r.srtt + rtt) \div 8
         IN [srtt |-> srtt, rttvar |-> rttvar,
             rto |-> ClampRto(srtt + 4 * rttvar), has_sample |-> TRUE]

RtoRecordFailure(r) == [r EXCEPT !.rto = Min(2 * r.rto, RtoUpperBound)]

\* ------------------------------------------------------------------- CUBIC
DupAckThreshold == 3

InitialCwnd ==
    IF MssBytes <= 1095 THEN 4 * MssBytes
    ELSE IF MssBytes <= 2190 THEN 3 * MssBytes ELSE 2 * MssBytes

\* (x as f32 * BETA_CUBIC) as u32, BETA_CUBIC = 0.7
MulBeta(x) == (x * 7) \div 10
\* (x as f32 * (1. + BETA_CUBIC) / 2.) as u32
MulFastConv(x) == (x * 17) \div 20
\* f32 -> u32 cast: saturating, negative values give 0
AsU32(x) == IF x < 0 THEN 0 ELSE IF x > U32Max THEN U32Max ELSE x

CubicNew(seq_no) ==
    [algorithm |-> "Cubic",
     cwnd |-> InitialCwnd % SeqMod,
     ssthresh |-> U32Max,
     w_max |-> 0,
     ca_start |-> 0,
     last_send_time |-> 0,
     rtt_at_last_send |-> 2,
     retransmitted_packets_in_flight |-> 0,
     last_congestion_was_rto |-> FALSE,
     in_fast_recovery |-> FALSE,
     fast_retransmit_now |-> FALSE,
     recover |-> seq_no,
     prev_ack_seq_no |-> seq_no,
     duplicate_ack_count |-> 0,
     limited_transmit_cwnd_increase |-> 0,
     fast_convergence |-> TRUE]

\* Fault injection: fast convergence that remembers BETA_CUBIC^2 of the window
FastConvergenceBelowCwnd(c) ==
    [c EXCEPT !.w_max = MulBeta(MulBeta(c.cwnd))]

FastConvergence(c) ==
    IF (c.cwnd \div MssBytes) < (c.w_max \div MssBytes)
    THEN [c EXCEPT !.w_max = MulFastConv(c.cwnd)]
    ELSE [c EXCEPT !.w_max = c.cwnd]

\* Fault injection: limited transmit that still counts the duplicate ACK
\* which reaches the threshold
CalculateLimitedTransmitCwndIncreaseAtThreshold(c) ==
    [c EXCEPT !.limited_transmit_cwnd_increase =
        IF c.duplicate_ack_count <= DupAckThreshold
        THEN (MssBytes * c.duplicate_ack_count) % SeqMod ELSE 0]

CalculateLimitedTransmitCwndIncrease(c) ==
    [c EXCEPT !.limited_transmit_cwnd_increase =
        IF c.duplicate_ack_count < DupAckThreshold
        THEN (MssBytes * c.duplicate_ack_count) % SeqMod ELSE 0]

IncrementDupAckCount(c) ==
    CalculateLimitedTransmitCwndIncrease(
        [c EXCEPT !.duplicate_ack_count = (c.duplicate_ack_count + 1) % SeqMod])

\* ack_seq_no_diff of on_dup_ack_received; the u32 sum wraps in a release build
AckSeqNoDiff(ack_seq_no, prev_ack_seq_no) ==
    IF ack_seq_no > prev_ack_seq_no
    THEN ack_seq_no - prev_ack_seq_no
    ELSE (ack_seq_no + 1 + (U32Max - prev_ack_seq_no)) % SeqMod

\* Whether that u32 sum exceeds u32::MAX: a panic in a debug build, the
\* wrapped value in a release build
AckSeqNoDiffOverflows(ack_seq_no, prev_ack_seq_no) ==
    /\ ~(ack_seq_no > prev_ack_seq_no)
    /\ ack_seq_no + 1 + (U32Max - prev_ack_seq_no) > U32Max

\* retransmitted_packet_dropped_heuristic of on_dup_ack_received
RetransmittedPacketDroppedHeuristic(c, ack_seq_no) ==
    /\ c.cwnd > MssBytes
    /\ AckSeqNoDiff(ack_seq_no, c.prev_ack_seq_no) <= 4 * MssBytes

\* Fault injection: fast recovery is entered one duplicate ACK early
DupAckEntersRecoveryEarly(c, ack_seq_no) ==
    (c.duplicate_ack_count + 1) % SeqMod = DupAckThreshold - 1

\* The condition under which a duplicate ACK enters fast recovery.
DupAckEntersRecovery(c, ack_seq_no) ==
    LET dup == (c.duplicate_ack_count + 1) % SeqMod
        ack_covers_recover == WSub(ack_seq_no, 1) > c.recover
        heuristic == RetransmittedPacketDroppedHeuristic(c, ack_seq_no)
    IN dup = DupAckThreshold /\ (ack_covers_recover \/ heuristic)

OnDupAckReceived(c, sent, ack_seq_no) ==
    LET c1 == IncrementDupAckCount(c)
        reduced_cwnd == MulBeta(c.cwnd)
    IN IF DupAckEntersRecovery(c, ack_seq_no)
       THEN LET c2 == [c1 EXCEPT !.in_fast_recovery = TRUE, !.recover = sent]
                c3 == IF c2.fast_convergence THEN FastConvergence(c2)
                      ELSE [c2 EXCEPT !.w_max = c.cwnd]
            IN [c3 EXCEPT !.ssthresh = Max(reduced_cwnd, 2 * MssBytes),
                          !.cwnd = reduced_cwnd,
                          !.fast_retransmit_now = TRUE]
       ELSE IF c1.duplicate_ack_count > DupAckThreshold \/ c1.in_fast_recovery
       THEN [c1 EXCEPT !.cwnd = (c1.cwnd + MssBytes) % SeqMod]
       ELSE c1

\* Fault injection: the full ACK sizes cwnd by the bytes outstanding after
\* the ACK instead of before it
OnAckReceivedFastRecoveryAfterAdvance(c, base, sent, ack_seq_no, t) ==
    LET bytes_outstanding == WSub(sent, ack_seq_no)
        bytes_acknowledged == WSub(ack_seq_no, base)
    IN IF ack_seq_no > c.recover
       THEN [c EXCEPT !.cwnd = Min(c.ssthresh,
                                   (Max(bytes_outstanding, MssBytes) + MssBytes) % SeqMod),
                      !.ca_start = t,
                      !.last_congestion_was_rto = FALSE,
                      !.in_fast_recovery = FALSE]
       ELSE [c EXCEPT !.fast_retransmit_now = TRUE,
                      !.cwnd = IF bytes_acknowledged >= MssBytes
                               THEN WAdd(WSub(c.cwnd, bytes_acknowledged), MssBytes)
                               ELSE WSub(c.cwnd, bytes_acknowledged)]

\* Cubic::on_ack_received_fast_recovery
OnAckReceivedFastRecovery(c, base, sent, ack_seq_no, t) ==
    LET bytes_outstanding == WSub(sent, base)
        bytes_acknowledged == WSub(ack_seq_no, base)
    IN IF ack_seq_no > c.recover
       THEN [c EXCEPT !.cwnd = Min(c.ssthresh,
                                   (Max(bytes_outstanding, MssBytes) + MssBytes) % SeqMod),
                      !.ca_start = t,
                      !.last_congestion_was_rto = FALSE,
                      !.in_fast_recovery = FALSE]
       ELSE [c EXCEPT !.fast_retransmit_now = TRUE,
                      !.cwnd = IF bytes_acknowledged >= MssBytes
                               THEN WAdd(WSub(c.cwnd, bytes_acknowledged), MssBytes)
                               ELSE WSub(c.cwnd, bytes_acknowledged)]

\* Integer cube root, for K of RFC 8312.
ICbrt(n) == CHOOSE k \in 0..400 : k * k * k <= n /\ n < (k + 1) * (k + 1) * (k + 1)

\* K in hundredths of a second
CubicK100(c) ==
    IF c.last_congestion_was_rto THEN 0
    ELSE ICbrt((1000000 * 3 * c.w_max) \div (4 * MssBytes))

\* W_cubic and W_est in thousandths of a segment; t100 in hundredths of a second
\* (a tick is 50 hundredths)
WCubic1000(c, t100) ==
    LET d100 == (40 * (t100 - CubicK100(c))) \div 100
    IN (d100 * d100 * d100) \div 1000 + (1000 * c.w_max) \div MssBytes

WEst1000(c, t100, rtt100) ==
    (700 * c.w_max) \div MssBytes + (529 * t100) \div rtt100

OnAckReceivedSsCa(c, base, ack_seq_no, t, rtt) ==
    LET bytes_acknowledged == WSub(ack_seq_no, base)
    IN IF c.cwnd < c.ssthresh
       THEN [c EXCEPT !.cwnd = (c.cwnd + Min(bytes_acknowledged, MssBytes)) % SeqMod]
       ELSE LET t100 == 50 * (t - c.ca_start)
                rtt100 == 50 * rtt
                w_est == WEst1000(c, t100, rtt100)
            IN IF WCubic1000(c, t100) < w_est
               THEN [c EXCEPT !.cwnd = AsU32((w_est * MssBytes) \div 1000)]
               ELSE LET target == (WCubic1000(c, t100 + rtt100) * MssBytes) \div 1000
                        cwnd_inc == IF target <= c.cwnd THEN 0
                                    ELSE (target - c.cwnd) \div c.cwnd
                    IN [c EXCEPT !.cwnd = (c.cwnd + AsU32(cwnd_inc)) % SeqMod]

\* impl SlowStartCongestionAvoidanceAlgorithm for Cubic :: on_ack_received
CubicOnAckReceived(c, base, sent, ack_seq_no, t, rtt) ==
    IF WSub(ack_seq_no, base) = 0
    THEN OnDupAckReceived(c, sent, ack_seq_no)
    ELSE LET c1 == CalculateLimitedTransmitCwndIncrease(
                       [c EXCEPT !.duplicate_ack_count = 0])
             c2 == [c1 EXCEPT !.retransmitted_packets_in_flight =
                                  WSub(c1.retransmitted_packets_in_flight, 1)]
             c3 == IF c2.in_fast_recovery
                   THEN OnAckReceivedFastRecovery(c2, base, sent, ack_seq_no, t)
                   ELSE OnAckReceivedSsCa(c2, base, ack_seq_no, t, rtt)
         IN [c3 EXCEPT !.prev_ack_seq_no = ack_seq_no]

\* Whether on_ack_received calls fast_retransmit_now.set(true), which notifies
\* the watchers of the flag.
OnAckNotifiesFastRetransmit(c, base, ack_seq_no) ==
    IF WSub(ack_seq_no, base) = 0
    THEN DupAckEntersRecovery(c, ack_seq_no)
    ELSE c.in_fast_recovery /\ ~(ack_seq_no > c.recover)

\* ------------------------------------------- The variant without an algorithm
\* Sender::new with TcpCongestionControlType::None: CongestionControl::new(mss,
\* Box::new(NoCongestionControl{})). The shared fields start as for every
\* algorithm, cwnd at the initial window; the fields of Cubic are not there
\* and keep the values of a new connection.
NoCongestionControlNew(seq_no) == [CubicNew(seq_no) EXCEPT !.algorithm = "None"]

\* congestion_ctrl::None::new: cwnd u32::MAX, retransmit_now false,
\* limited_transmit_cwnd_increase 0
NoneNew(seq_no) ==
    [NoCongestionControlNew(seq_no) EXCEPT !.cwnd = U32Max,
                                           !.fast_retransmit_now = FALSE,
                                           !.limited_transmit_cwnd_increase = 0]

\* self.congestion_ctrl.algorithm.on_ack_received(&self, ack_seq_no); the
\* body of NoCongestionControl::on_ack_received is empty
AlgorithmOnAckReceived(c, base, sent, ack_seq_no, t, rtt) ==
    IF c.algorithm = "None"
    THEN c
    ELSE CubicOnAckReceived(c, base, sent, ack_seq_no, t, rtt)

\* Whether the call has notified the watchers of fast_retransmit_now
AlgorithmNotifiesFastRetransmit(c, base, sent, ack_seq_no) ==
    IF c.algorithm = "None"
    THEN FALSE
    ELSE OnAckNotifiesFastRetransmit(c, base, ack_seq_no)

\* Cubic::on_rto_ss_ca: the window is cut to BETA_CUBIC of itself; ssthresh
\* is set only when no retransmitted packet is in flight.
OnRtoSsCa(c) ==
    LET c1 == IF c.fast_convergence THEN FastConvergence(c)
              ELSE [c EXCEPT !.w_max = c.cwnd]
        rpif == c.retransmitted_packets_in_flight
    IN [c1 EXCEPT !.cwnd = MulBeta(c.cwnd),
                  !.ssthresh = IF rpif = 0
                               THEN Max(MulBeta(c.cwnd), (2 * MssBytes) % SeqMod)
                               ELSE c.ssthresh,
                  !.retransmitted_packets_in_flight = (rpif + 1) % SeqMod,
                  !.last_congestion_was_rto = TRUE]

\* Cubic::on_rto_fast_recovery
OnRtoFastRecovery(c, sent) ==
    [c EXCEPT !.recover = sent, !.in_fast_recovery = FALSE]

\* impl SlowStartCongestionAvoidanceAlgorithm / FastRetransmitRecovery :: on_rto
CubicOnRto(c, sent) == OnRtoFastRecovery(OnRtoSsCa(c), sent)

\* Instant::duration_since(earlier): the time from earlier to self. When
\* earlier is the later instant the toolchain decides: the call saturates to
\* zero or panics.
DurationSinceOutcomes(self, earlier) ==
    IF self >= earlier THEN {[panics |-> FALSE, duration |-> self - earlier]}
    ELSE {[panics |-> FALSE, duration |-> 0], [panics |-> TRUE, duration |-> 0]}

\* Cubic::on_cwnd_check_before_send, the outcomes at time t:
\* last_send_time.duration_since(Instant::now()) is compared with rtt_at_last_send
OnCwndCheckBeforeSendOutcomes(c, t) ==
    {[panics |-> d.panics,
      cc |-> IF ~d.panics /\ d.duration > c.rtt_at_last_send
             THEN [c EXCEPT !.cwnd = Min(InitialCwnd % SeqMod, c.cwnd)]
             ELSE c] : d \in DurationSinceOutcomes(c.last_send_time, t)}

\* ------------------------------------------------------------------- state
VARIABLES
    \* Sender
    state, base_seq_no, sent_seq_no, unsent_seq_no, unacked_queue, unsent_queue,
    window_size, retransmit_deadline, rto, cc,
    \* Receiver
    rcv_state, rcv_base_seq_no, ack_seq_no, recv_seq_no, recv_queue, available,
    ack_deadline, last_segment_was_full_size, acked_last_full_size_segment, waker,
    \* environment: the peer's ARP entry and the clock
    arp_cached, now,
    \* the retransmitter task
    rtx,
    \* what was put on the wire, the last call's result, what the application
    \* read, which segments gave an RTT sample, a panic if one happened
    wire, result, delivered, rtt_samples, panicked,
    \* numbers of calls made and of changes of the ARP entry
    nCalls, nSends, nArpEvents,
    \* the ARP cache and the futures wait_link_addr has handed out
    arp, arp_futures

sndVars == <<state, base_seq_no, sent_seq_no, unsent_seq_no, unacked_queue,
             unsent_queue, window_size, retransmit_deadline, rto, cc>>
rcvVars == <<rcv_state, rcv_base_seq_no, ack_seq_no, recv_seq_no, recv_queue,
             available, ack_deadline, last_segment_was_full_size,
             acked_last_full_size_segment, waker, delivered>>
arpVars == <<arp, arp_futures>>
vars == <<sndVars, rcvVars, arp_cached, now, rtx, wire, result, rtt_samples,
          panicked, nCalls, nSends, nArpEvents, arpVars>>

WindowScale == 1
InitialWindow == 2 * MssBytes
RcvMaxWindowSize == 2 * MssBytes
RecvSizes == {0, 1, MssBytes}
\* Duration::from_millis(500)
AckDelay == 1
IsnChoices == {MssBytes, SeqMod - MssBytes - 1}
SendSizes == {1, MssBytes}
WindowHdrs == {0, MssBytes, 3 * MssBytes}

NoResult == [op |-> "none", res |-> "Ok"]

\* retransmitter(): the loop head takes the two watch() snapshots
RtxWatch(deadline) ==
    [pc |-> "select", cause |-> "none", watched_deadline |-> deadline,
     deadline_changed |-> FALSE, fast_retransmit_changed |-> FALSE]

\* WatchedValue::set on retransmit_deadline / fast_retransmit_now wakes the
\* change signal the retransmitter holds while it waits in select_biased!
NotifyDeadline(r) ==
    IF r.pc = "select" THEN [r EXCEPT !.deadline_changed = TRUE] ELSE r
NotifyFastRetransmit(r) ==
    IF r.pc = "select" THEN [r EXCEPT !.fast_retransmit_changed = TRUE] ELSE r

\* Sender::new, Receiver::new
\* ------------------------------------------------------------ The ARP cache
\* ArpCache on its own: two addresses, two link addresses, the futures that
\* wait_link_addr handed out, and the clock of the cache.
Ipv4Addrs == {"ip1", "ip2"}
MacAddresses == {"mac1", "mac2"}
NoMac == "none"
NoIp == "none"
NoWaiter == 0
MaxArpCalls == 4
MaxArpTime == 2
\* ArpCache::new(now, default_ttl)
DefaultTtl == 2
\* The ttl arguments of insert_with_ttl: None, or one tick
NoTtl == 0
Ttls == {NoTtl, 1}

NoRecord == [present |-> FALSE, link_addr |-> NoMac, expiry |-> NoInstant]

ArpNew ==
    [cache |-> [ip \in Ipv4Addrs |-> NoRecord],
     rmap |-> [mac \in MacAddresses |-> NoIp],
     waiters |-> [ip \in Ipv4Addrs |-> NoWaiter],
     now |-> 0]

InitWithCc(seq_no, window, congestion_ctrl) ==
    /\ state = "Open"
    /\ base_seq_no = seq_no
    /\ sent_seq_no = seq_no
    /\ unsent_seq_no = seq_no
    /\ unacked_queue = <<>>
    /\ unsent_queue = <<>>
    /\ window_size = window
    /\ retransmit_deadline = NoInstant
    /\ rto = RtoNew
    /\ cc = congestion_ctrl
    /\ rcv_state = "Open"
    /\ rcv_base_seq_no = seq_no
    /\ ack_seq_no = seq_no
    /\ recv_seq_no = seq_no
    /\ recv_queue = <<>>
    /\ available = 0
    /\ ack_deadline = NoInstant
    /\ last_segment_was_full_size = FALSE
    /\ acked_last_full_size_segment = FALSE
    /\ waker = FALSE
    /\ arp_cached = TRUE
    /\ now = 0
    /\ rtx = RtxWatch(NoInstant)
    /\ wire = <<>>
    /\ result = NoResult
    /\ delivered = <<>>
    /\ rtt_samples = {}
    /\ panicked = "no"
    /\ nCalls = 0
    /\ nSends = 0
    /\ nArpEvents = 0
    /\ arp = ArpNew
    /\ arp_futures = <<>>

InitWith(seq_no, window) == InitWithCc(seq_no, window, CubicNew(seq_no))

InitFor(seq_no) == InitWith(seq_no, InitialWindow)

Init == \E seq_no \in IsnChoices : InitFor(seq_no)

Emission(seq_num, bytes, cause) == [seq_num |-> seq_num, bytes |-> bytes, cause |-> cause]

\* ------------------------------------------------------------------ Sender
\* Sender::send: the window test of the fast path (u32 sum, wrapping)
SendFits(buf_len) ==
    LET sent_data == WSub(sent_seq_no, base_seq_no)
    IN /\ window_size > 0
       /\ window_size >= (sent_data + buf_len) % SeqMod
       /\ cc.cwnd >= (sent_data + buf_len) % SeqMod

\* cb.arp.try_query(cb.remote.address())
ArpTryQuery == arp_cached

SendFastPath(buf_len) == SendFits(buf_len) /\ ArpTryQuery

SendCall(buf_len) ==
    LET buf == MkBytes(nSends + 1, buf_len)
    IN /\ panicked = "no"
       /\ UNCHANGED arpVars
       /\ nCalls' = nCalls + 1
       /\ nSends' = nSends + 1
       /\ IF state # "Open"
          THEN /\ result' = [op |-> "send", res |-> "Ignored: Sender closed"]
               /\ UNCHANGED <<sndVars, rtx, wire>>
          ELSE /\ result' = [op |-> "send", res |-> "Ok"]
               /\ IF SendFastPath(buf_len)
                  THEN /\ wire' = Append(wire, Emission(sent_seq_no, buf, "send"))
                       /\ unsent_seq_no' = WAdd(unsent_seq_no, buf_len)
                       /\ sent_seq_no' = WAdd(sent_seq_no, buf_len)
                       /\ unacked_queue' = Append(unacked_queue,
                                                  [bytes |-> buf, initial_tx |-> now])
                       /\ IF retransmit_deadline = NoInstant
                          THEN /\ retransmit_deadline' = now + RtoEstimate(rto)
                               /\ rtx' = NotifyDeadline(rtx)
                          ELSE UNCHANGED <<retransmit_deadline, rtx>>
                       /\ UNCHANGED <<state, base_seq_no, unsent_queue, window_size,
                                      rto, cc>>
                  ELSE /\ unsent_queue' = Append(unsent_queue, buf)
                       /\ unsent_seq_no' = WAdd(unsent_seq_no, buf_len)
                       /\ UNCHANGED <<state, base_seq_no, sent_seq_no, unacked_queue,
                                      window_size, retransmit_deadline, rto, cc,
                                      rtx, wire>>
       /\ UNCHANGED <<rcvVars, arp_cached, now, rtt_samples, panicked, nArpEvents>>

\* send, within the budget of calls
Send(buf_len) == nCalls < MaxCalls /\ SendCall(buf_len)

\* Fault injection: close without the test of the state
CloseFromAnyState ==
    /\ panicked = "no"
    /\ UNCHANGED arpVars
    /\ nCalls < MaxCalls
    /\ nCalls' = nCalls + 1
    /\ result' = [op |-> "close", res |-> "Ok"]
    /\ state' = "Closed"
    /\ UNCHANGED <<base_seq_no, sent_seq_no, unsent_seq_no, unacked_queue,
                   unsent_queue, window_size, retransmit_deadline, rto, cc,
                   rcvVars, arp_cached, now, rtx, wire, rtt_samples, panicked,
                   nSends, nArpEvents>>

\* Sender::close
Close ==
    /\ panicked = "no"
    /\ UNCHANGED arpVars
    /\ nCalls < MaxCalls
    /\ nCalls' = nCalls + 1
    /\ IF state # "Open"
       THEN /\ result' = [op |-> "close", res |-> "Ignored: Sender closed"]
            /\ UNCHANGED state
       ELSE /\ result' = [op |-> "close", res |-> "Ok"]
            /\ state' = "Closed"
    /\ UNCHANGED <<base_seq_no, sent_seq_no, unsent_seq_no, unacked_queue,
                   unsent_queue, window_size, retransmit_deadline, rto, cc,
                   rcvVars, arp_cached, now, rtx, wire, rtt_samples, panicked,
                   nSends, nArpEvents>>

\* u32::checked_shl: None only when the shift is not smaller than the word
\* width; otherwise the shifted word, the bits shifted out of it dropped
CheckedShl(x, shift) ==
    [none |-> shift >= SeqBits, value |-> (x * (2 ^ shift)) % SeqMod]

\* Sender::update_remote_window of a sender constructed with window_scale
UpdateRemoteWindowWith(window_scale, window_size_hdr) ==
    /\ panicked = "no"
    /\ UNCHANGED arpVars
    /\ nCalls' = nCalls + 1
    /\ IF state # "Open"
       THEN /\ result' = [op |-> "update_remote_window",
                          res |-> "Ignored: Dropping remote window update for closed sender"]
            /\ UNCHANGED window_size
       ELSE IF CheckedShl(window_size_hdr, window_scale).none
       THEN /\ result' = [op |-> "update_remote_window",
                          res |-> "Ignored: Window size overflow"]
            /\ UNCHANGED window_size
       ELSE /\ result' = [op |-> "update_remote_window", res |-> "Ok"]
            /\ window_size' = CheckedShl(window_size_hdr, window_scale).value
    /\ UNCHANGED <<state, base_seq_no, sent_seq_no, unsent_seq_no, unacked_queue,
                   unsent_queue, retransmit_deadline, rto, cc,
                   rcvVars, arp_cached, now, rtx, wire, rtt_samples, panicked,
                   nSends, nArpEvents>>

\* update_remote_window of the sender of Init
UpdateRemoteWindowCall(window_size_hdr) ==
    UpdateRemoteWindowWith(WindowScale, window_size_hdr)

\* update_remote_window, within the budget of calls
UpdateRemoteWindow(window_size_hdr) ==
    nCalls < MaxCalls /\ UpdateRemoteWindowCall(window_size_hdr)

\* Fault injection: the loop of remote_ack with the boundary test off by one
\* (a segment that ends exactly at the ACK is refused)
RECURSIVE AckPopStrict(_, _, _, _)
AckPopStrict(q, bytes_remaining, r, t) ==
    IF q = <<>>
    THEN [queue |-> q, rto |-> r, sampled |-> {}, on_boundary |-> TRUE]
    ELSE LET segment == Head(q)
         IN IF segment.bytes.len >= bytes_remaining
            THEN [queue |-> Tail(q), rto |-> r, sampled |-> {}, on_boundary |-> FALSE]
            ELSE LET r1 == IF segment.initial_tx # NoInstant
                           THEN RtoAddSample(r, t - segment.initial_tx) ELSE r
                     s1 == IF segment.initial_tx # NoInstant
                           THEN {segment.bytes} ELSE {}
                     rest == AckPopStrict(Tail(q), bytes_remaining - segment.bytes.len, r1, t)
                 IN [rest EXCEPT !.sampled = @ \cup s1]

\* Sender::remote_ack, the loop that pops the acknowledged segments: the
\* queue, the RTO estimator and the segments sampled when the loop ends, and
\* whether it ended on a segment longer than the bytes that remain.
RECURSIVE AckPop(_, _, _, _)
AckPop(q, bytes_remaining, r, t) ==
    IF q = <<>>
    THEN [queue |-> q, rto |-> r, sampled |-> {}, on_boundary |-> TRUE]
    ELSE LET segment == Head(q)
         IN IF segment.bytes.len > bytes_remaining
            THEN [queue |-> Tail(q), rto |-> r, sampled |-> {}, on_boundary |-> FALSE]
            ELSE LET r1 == IF segment.initial_tx # NoInstant
                           THEN RtoAddSample(r, t - segment.initial_tx) ELSE r
                     s1 == IF segment.initial_tx # NoInstant
                           THEN {segment.bytes} ELSE {}
                     remaining == bytes_remaining - segment.bytes.len
                 IN IF remaining = 0
                    THEN [queue |-> Tail(q), rto |-> r1, sampled |-> s1,
                          on_boundary |-> TRUE]
                    ELSE LET rest == AckPop(Tail(q), remaining, r1, t)
                         IN [rest EXCEPT !.sampled = @ \cup s1]

\* Fault injection: remote_ack that takes an ACK of bytes never sent
AckOutsideSendWindowNever(bytes_acknowledged, bytes_outstanding) == FALSE

\* Sender::remote_ack, the test "ACK is outside of send window"
AckOutsideSendWindow(bytes_acknowledged, bytes_outstanding) ==
    bytes_acknowledged > bytes_outstanding

RemoteAckCall(ack) ==
    LET bytes_outstanding == WSub(sent_seq_no, base_seq_no)
        bytes_acknowledged == WSub(ack, base_seq_no)
        popped == AckPop(unacked_queue, bytes_acknowledged, rto, now)
        rtx1 == IF AlgorithmNotifiesFastRetransmit(cc, base_seq_no, sent_seq_no, ack)
                THEN NotifyFastRetransmit(rtx) ELSE rtx
    IN /\ panicked = "no"
       /\ UNCHANGED arpVars
       /\ nCalls' = nCalls + 1
       /\ IF state = "SentFin"
          THEN /\ IF base_seq_no # sent_seq_no
                  THEN /\ panicked' = "assertion failed: base_seq_no == sent_seq_no"
                       /\ UNCHANGED <<state, result>>
                  ELSE IF sent_seq_no # unsent_seq_no
                  THEN /\ panicked' = "assertion failed: sent_seq_no == unsent_seq_no"
                       /\ UNCHANGED <<state, result>>
                  ELSE /\ state' = "FinAckd"
                       /\ result' = [op |-> "remote_ack", res |-> "Ok"]
                       /\ UNCHANGED panicked
               /\ UNCHANGED <<base_seq_no, unacked_queue, retransmit_deadline, rto,
                              cc, rtx, rtt_samples>>
          ELSE IF AckOutsideSendWindow(bytes_acknowledged, bytes_outstanding)
          THEN /\ result' = [op |-> "remote_ack",
                             res |-> "Ignored: ACK is outside of send window"]
               /\ UNCHANGED <<state, base_seq_no, unacked_queue, retransmit_deadline,
                              rto, cc, rtx, rtt_samples, panicked>>
          ELSE /\ UNCHANGED panicked
               /\ cc' = AlgorithmOnAckReceived(cc, base_seq_no, sent_seq_no, ack, now,
                                               RtoEstimate(rto))
               /\ IF bytes_acknowledged = 0
                  THEN /\ result' = [op |-> "remote_ack", res |-> "Ok"]
                       /\ rtx' = rtx1
                       /\ UNCHANGED <<state, base_seq_no, unacked_queue,
                                      retransmit_deadline, rto, rtt_samples>>
                  ELSE /\ retransmit_deadline' =
                              IF ack = sent_seq_no THEN NoInstant
                              ELSE now + RtoEstimate(rto)
                       /\ rtx' = NotifyDeadline(rtx1)
                       /\ unacked_queue' = popped.queue
                       /\ rto' = popped.rto
                       /\ rtt_samples' = rtt_samples \cup popped.sampled
                       /\ IF popped.on_boundary
                          THEN /\ base_seq_no' = WAdd(base_seq_no, bytes_acknowledged)
                               /\ result' = [op |-> "remote_ack", res |-> "Ok"]
                          ELSE /\ result' = [op |-> "remote_ack",
                                             res |-> "Ignored: ACK isn't on segment boundary"]
                               /\ UNCHANGED base_seq_no
                       /\ UNCHANGED state
       /\ UNCHANGED <<sent_seq_no, unsent_seq_no, unsent_queue, window_size,
                      rcvVars, arp_cached, now, wire, nSends, nArpEvents>>

\* remote_ack, within the budget of calls
RemoteAck(ack) == nCalls < MaxCalls /\ RemoteAckCall(ack)

\* The ACK numbers the peer may send: the current base (a duplicate), every
\* segment boundary, the byte after the base (inside a segment when the head
\* is longer than one byte) and one past everything sent.
RECURSIVE Boundaries(_, _)
Boundaries(q, from) ==
    IF q = <<>> THEN {}
    ELSE LET next == WAdd(from, Head(q).bytes.len)
         IN {next} \cup Boundaries(Tail(q), next)

AckInputs ==
    {base_seq_no, WAdd(base_seq_no, 1), WAdd(sent_seq_no, 1)}
        \cup Boundaries(unacked_queue, base_seq_no)

\* Sender::pop_unsent: the buffer handed out and the queue that is left
PopUnsent(q, max_bytes) ==
    IF Head(q).len > max_bytes
    THEN [buf |-> SplitHead(Head(q), max_bytes),
          queue |-> <<SplitTail(Head(q), max_bytes)>> \o Tail(q)]
    ELSE [buf |-> Head(q), queue |-> Tail(q)]

\* The unsent drainer (4.1): when the send budget has room and the peer's
\* link address is known, it pops up to MSS bytes and emits them as the fast
\* path of send does.
SendBudget == Min(window_size, (cc.cwnd + cc.limited_transmit_cwnd_increase) % SeqMod)

DrainerEmit ==
    LET sent_data == WSub(sent_seq_no, base_seq_no)
        popped == PopUnsent(unsent_queue, Min(SendBudget - sent_data, MssBytes))
    IN /\ panicked = "no"
       /\ UNCHANGED arpVars
       /\ unsent_queue # <<>>
       /\ arp_cached
       /\ sent_data < SendBudget
       /\ unsent_queue' = popped.queue
       /\ wire' = Append(wire, Emission(sent_seq_no, popped.buf, "drain"))
       /\ sent_seq_no' = WAdd(sent_seq_no, popped.buf.len)
       /\ unacked_queue' = Append(unacked_queue,
                                  [bytes |-> popped.buf, initial_tx |-> now])
       /\ IF retransmit_deadline = NoInstant
          THEN /\ retransmit_deadline' = now + RtoEstimate(rto)
               /\ rtx' = NotifyDeadline(rtx)
          ELSE UNCHANGED <<retransmit_deadline, rtx>>
       /\ UNCHANGED <<state, base_seq_no, unsent_seq_no, window_size, rto, cc,
                      rcvVars, arp_cached, now, result, rtt_samples, panicked,
                      nCalls, nSends, nArpEvents>>

\* ----------------------------------------------------------- Retransmitter
\* Fault injection: retransmit() without segment.initial_tx.take()
RetransmitBodyKeepsInitialTx(cause) ==
    IF unacked_queue = <<>>
    THEN /\ panicked' = "Retransmission timer set with empty acknowledge queue"
         /\ UNCHANGED <<unacked_queue, rto, retransmit_deadline, wire>>
    ELSE LET rto1 == IF cause = "TimeOut" THEN RtoRecordFailure(rto) ELSE rto
         IN /\ rto' = rto1
            /\ UNCHANGED unacked_queue
            /\ wire' = Append(wire, Emission(base_seq_no, Head(unacked_queue).bytes, cause))
            /\ retransmit_deadline' = now + RtoEstimate(rto1)
            /\ UNCHANGED panicked

\* Fault injection: retransmit() that does not set the new retransmit deadline
RetransmitBodyKeepsDeadline(cause) ==
    IF unacked_queue = <<>>
    THEN /\ panicked' = "Retransmission timer set with empty acknowledge queue"
         /\ UNCHANGED <<unacked_queue, rto, retransmit_deadline, wire>>
    ELSE LET rto1 == IF cause = "TimeOut" THEN RtoRecordFailure(rto) ELSE rto
         IN /\ rto' = rto1
            /\ unacked_queue' = [unacked_queue EXCEPT ![1].initial_tx = NoInstant]
            /\ wire' = Append(wire, Emission(base_seq_no, Head(unacked_queue).bytes, cause))
            /\ UNCHANGED retransmit_deadline
            /\ UNCHANGED panicked

\* retransmit(), after the ARP query has answered
RetransmitBody(cause) ==
    IF unacked_queue = <<>>
    THEN /\ panicked' = "Retransmission timer set with empty acknowledge queue"
         /\ UNCHANGED <<unacked_queue, rto, retransmit_deadline, wire>>
    ELSE LET rto1 == IF cause = "TimeOut" THEN RtoRecordFailure(rto) ELSE rto
         IN /\ rto' = rto1
            /\ unacked_queue' = [unacked_queue EXCEPT ![1].initial_tx = NoInstant]
            /\ wire' = Append(wire, Emission(base_seq_no, Head(unacked_queue).bytes, cause))
            /\ retransmit_deadline' = now + RtoEstimate(rto1)
            /\ UNCHANGED panicked

\* What the loop does after retransmit() returns: the FastRetransmit arm
\* clears the flag, then the loop head watches again.
AfterRetransmit(cause, c) ==
    /\ cc' = IF cause = "FastRetransmit" THEN [c EXCEPT !.fast_retransmit_now = FALSE]
             ELSE c
    /\ rtx' = RtxWatch(retransmit_deadline')

\* The arm of select_biased! that runs when the task is polled
RtxReadyArm ==
    IF rtx.deadline_changed THEN "deadline_changed"
    ELSE IF rtx.watched_deadline # NoInstant /\ now >= rtx.watched_deadline THEN "TimeOut"
    ELSE IF rtx.fast_retransmit_changed THEN "FastRetransmit"
    ELSE "pending"

\* The retransmitter is polled while it waits in select_biased!; c_timeout is
\* the congestion-control state its timeout arm leaves.
RtxPollWith(c_timeout) ==
    LET arm == RtxReadyArm
        c1 == IF arm = "TimeOut" THEN c_timeout ELSE cc
    IN /\ panicked = "no"
       /\ UNCHANGED arpVars
       /\ rtx.pc = "select"
       /\ arm # "pending"
       /\ IF arm = "deadline_changed"
          THEN /\ rtx' = RtxWatch(retransmit_deadline)
               /\ UNCHANGED <<cc, unacked_queue, rto, retransmit_deadline, wire, panicked>>
          ELSE IF arp_cached
          THEN /\ RetransmitBody(arm)
               /\ AfterRetransmit(arm, c1)
          ELSE /\ rtx' = [rtx EXCEPT !.pc = "arp", !.cause = arm]
               /\ cc' = c1
               /\ UNCHANGED <<unacked_queue, rto, retransmit_deadline, wire, panicked>>
       /\ UNCHANGED <<state, base_seq_no, sent_seq_no, unsent_seq_no, unsent_queue,
                      window_size, rcvVars, arp_cached, now, result, rtt_samples,
                      nCalls, nSends, nArpEvents>>

\* The timeout arm of retransmitter() sets recover and leaves fast recovery
\* itself; it calls no hook of the congestion control.
RtxPoll == RtxPollWith([cc EXCEPT !.recover = sent_seq_no, !.in_fast_recovery = FALSE])

\* The ARP query inside retransmit() answers
RtxArpResolved ==
    /\ panicked = "no"
    /\ UNCHANGED arpVars
    /\ rtx.pc = "arp"
    /\ arp_cached
    /\ RetransmitBody(rtx.cause)
    /\ AfterRetransmit(rtx.cause, cc)
    /\ UNCHANGED <<state, base_seq_no, sent_seq_no, unsent_seq_no, unsent_queue,
                   window_size, rcvVars, arp_cached, now, result, rtt_samples,
                   nCalls, nSends, nArpEvents>>

\* ------------------------------------------------------------- environment
\* The peer's ARP entry expires (try_evict) or is learnt again (insert)
ArpExpire ==
    /\ panicked = "no"
    /\ UNCHANGED arpVars
    /\ arp_cached
    /\ nArpEvents < MaxArpEvents
    /\ arp_cached' = FALSE
    /\ nArpEvents' = nArpEvents + 1
    /\ UNCHANGED <<sndVars, rcvVars, now, rtx, wire, result, rtt_samples, panicked,
                   nCalls, nSends>>

ArpInsert ==
    /\ panicked = "no"
    /\ UNCHANGED arpVars
    /\ ~arp_cached
    /\ nArpEvents < MaxArpEvents
    /\ arp_cached' = TRUE
    /\ nArpEvents' = nArpEvents + 1
    /\ UNCHANGED <<sndVars, rcvVars, now, rtx, wire, result, rtt_samples, panicked,
                   nCalls, nSends>>

Elapse ==
    /\ panicked = "no"
    /\ UNCHANGED arpVars
    /\ now' = now + 1
    /\ UNCHANGED <<sndVars, rcvVars, arp_cached, rtx, wire, result, rtt_samples,
                   panicked, nCalls, nSends, nArpEvents>>

\* The clock advances, within the horizon
Tick == now < MaxTime /\ Elapse

\* ---------------------------------------------------------------- Receiver
rcvFrame == <<sndVars, arp_cached, now, rtx, wire, rtt_samples, nSends, nArpEvents>>

\* Receiver::window_size (u32 subtraction)
RcvWindowSize == WSub(RcvMaxWindowSize, WSub(recv_seq_no, rcv_base_seq_no))

\* Receiver::current_ack
CurrentAck == recv_seq_no

\* Fault injection: the delayed-ACK policy with the second full-size segment
\* of a pair acknowledged after the delay instead of at once
DelayedAckPolicyNeverImmediate(buf_len, t) ==
    IF buf_len = MssBytes /\ last_segment_was_full_size /\ ~acked_last_full_size_segment
    THEN /\ acked_last_full_size_segment' = TRUE
         /\ ack_deadline' = IF ack_deadline = NoInstant THEN t + AckDelay ELSE ack_deadline
         /\ UNCHANGED last_segment_was_full_size
    ELSE IF buf_len = MssBytes
    THEN /\ last_segment_was_full_size' = TRUE
         /\ acked_last_full_size_segment' = FALSE
         /\ ack_deadline' = IF ack_deadline = NoInstant THEN t + AckDelay ELSE ack_deadline
    ELSE /\ last_segment_was_full_size' = FALSE
         /\ ack_deadline' = IF ack_deadline = NoInstant THEN t + AckDelay ELSE ack_deadline
         /\ UNCHANGED acked_last_full_size_segment

\* Receiver::receive_data, the delayed-ACK policy that ends it
DelayedAckPolicy(buf_len, t) ==
    IF buf_len = MssBytes /\ last_segment_was_full_size /\ ~acked_last_full_size_segment
    THEN /\ acked_last_full_size_segment' = TRUE
         /\ ack_deadline' = t
         /\ UNCHANGED last_segment_was_full_size
    ELSE IF buf_len = MssBytes
    THEN /\ last_segment_was_full_size' = TRUE
         /\ acked_last_full_size_segment' = FALSE
         /\ ack_deadline' = IF ack_deadline = NoInstant THEN t + AckDelay ELSE ack_deadline
    ELSE /\ last_segment_was_full_size' = FALSE
         /\ ack_deadline' = IF ack_deadline = NoInstant THEN t + AckDelay ELSE ack_deadline
         /\ UNCHANGED acked_last_full_size_segment

\* Fault injection: receive_data that takes the reader's waker before it
\* refuses an out-of-order segment
ReceiveDataWakesOnFailure(seq_no, buf, t) ==
    /\ panicked = "no"
    /\ UNCHANGED arpVars
    /\ IF rcv_state # "Open"
       THEN /\ result' = [op |-> "receive_data", res |-> "ResourceNotFound: Receiver closed"]
            /\ UNCHANGED <<recv_seq_no, available, recv_queue, waker, ack_deadline,
                           last_segment_was_full_size, acked_last_full_size_segment>>
       ELSE IF recv_seq_no # seq_no
       THEN /\ result' = [op |-> "receive_data", res |-> "Ignored: Out of order segment"]
            /\ waker' = FALSE
            /\ UNCHANGED <<recv_seq_no, available, recv_queue, ack_deadline,
                           last_segment_was_full_size, acked_last_full_size_segment>>
       ELSE IF SumLen(recv_queue) + buf.len > RcvMaxWindowSize
       THEN /\ result' = [op |-> "receive_data", res |-> "Ignored: Full receive window"]
            /\ UNCHANGED <<recv_seq_no, available, recv_queue, waker, ack_deadline,
                           last_segment_was_full_size, acked_last_full_size_segment>>
       ELSE /\ result' = [op |-> "receive_data", res |-> "Ok"]
            /\ recv_seq_no' = WAdd(recv_seq_no, buf.len)
            /\ available' = available + buf.len
            /\ recv_queue' = Append(recv_queue, buf)
            /\ waker' = FALSE
            /\ DelayedAckPolicy(buf.len, t)
    /\ UNCHANGED <<rcv_state, rcv_base_seq_no, ack_seq_no, delivered>>

\* Fault injection: receive_data without the test of the receive window
ReceiveDataNoWindowTest(seq_no, buf, t) ==
    /\ panicked = "no"
    /\ UNCHANGED arpVars
    /\ IF rcv_state # "Open"
       THEN /\ result' = [op |-> "receive_data", res |-> "ResourceNotFound: Receiver closed"]
            /\ UNCHANGED <<recv_seq_no, available, recv_queue, waker, ack_deadline,
                           last_segment_was_full_size, acked_last_full_size_segment>>
       ELSE IF recv_seq_no # seq_no
       THEN /\ result' = [op |-> "receive_data", res |-> "Ignored: Out of order segment"]
            /\ UNCHANGED <<recv_seq_no, available, recv_queue, waker, ack_deadline,
                           last_segment_was_full_size, acked_last_full_size_segment>>
       ELSE /\ result' = [op |-> "receive_data", res |-> "Ok"]
            /\ recv_seq_no' = WAdd(recv_seq_no, buf.len)
            /\ available' = available + buf.len
            /\ recv_queue' = Append(recv_queue, buf)
            /\ waker' = FALSE
            /\ DelayedAckPolicy(buf.len, t)
    /\ UNCHANGED <<rcv_state, rcv_base_seq_no, ack_seq_no, delivered>>

ReceiveData(seq_no, buf, t) ==
    /\ panicked = "no"
    /\ UNCHANGED arpVars
    /\ IF rcv_state # "Open"
       THEN /\ result' = [op |-> "receive_data", res |-> "ResourceNotFound: Receiver closed"]
            /\ UNCHANGED <<recv_seq_no, available, recv_queue, waker, ack_deadline,
                           last_segment_was_full_size, acked_last_full_size_segment>>
       ELSE IF recv_seq_no # seq_no
       THEN /\ result' = [op |-> "receive_data", res |-> "Ignored: Out of order segment"]
            /\ UNCHANGED <<recv_seq_no, available, recv_queue, waker, ack_deadline,
                           last_segment_was_full_size, acked_last_full_size_segment>>
       ELSE IF SumLen(recv_queue) + buf.len > RcvMaxWindowSize
       THEN /\ result' = [op |-> "receive_data", res |-> "Ignored: Full receive window"]
            /\ UNCHANGED <<recv_seq_no, available, recv_queue, waker, ack_deadline,
                           last_segment_was_full_size, acked_last_full_size_segment>>
       ELSE /\ result' = [op |-> "receive_data", res |-> "Ok"]
            /\ recv_seq_no' = WAdd(recv_seq_no, buf.len)
            /\ available' = available + buf.len
            /\ recv_queue' = Append(recv_queue, buf)
            /\ waker' = FALSE
            /\ DelayedAckPolicy(buf.len, t)
    /\ UNCHANGED <<rcv_state, rcv_base_seq_no, ack_seq_no, delivered>>

\* Fault injection: the pop of recv without the update of available
PopSegmentKeepsAvailable ==
    IF recv_queue = <<>>
    THEN /\ panicked' = "recv_seq > base_seq without data in queue?"
         /\ UNCHANGED <<recv_queue, rcv_base_seq_no, available, delivered>>
    ELSE /\ recv_queue' = Tail(recv_queue)
         /\ rcv_base_seq_no' = WAdd(rcv_base_seq_no, Head(recv_queue).len)
         /\ UNCHANGED available
         /\ delivered' = Append(delivered, Head(recv_queue))
         /\ UNCHANGED panicked

\* Receiver::recv and Receiver::poll_recv, when there is data: the pop
PopSegment ==
    IF recv_queue = <<>>
    THEN /\ panicked' = "recv_seq > base_seq without data in queue?"
         /\ UNCHANGED <<recv_queue, rcv_base_seq_no, available, delivered>>
    ELSE /\ recv_queue' = Tail(recv_queue)
         /\ rcv_base_seq_no' = WAdd(rcv_base_seq_no, Head(recv_queue).len)
         /\ available' = available - Head(recv_queue).len
         /\ delivered' = Append(delivered, Head(recv_queue))
         /\ UNCHANGED panicked

Recv ==
    /\ panicked = "no"
    /\ UNCHANGED arpVars
    /\ IF rcv_base_seq_no = recv_seq_no
       THEN /\ result' = [op |-> "recv",
                          res |-> IF rcv_state # "Open"
                                  THEN "ResourceNotFound: Receiver closed" ELSE "Ok(None)"]
            /\ UNCHANGED <<recv_queue, rcv_base_seq_no, available, delivered, panicked>>
       ELSE /\ result' = [op |-> "recv", res |-> "Ok(Some)"]
            /\ PopSegment
    /\ UNCHANGED <<rcv_state, ack_seq_no, recv_seq_no, ack_deadline,
                   last_segment_was_full_size, acked_last_full_size_segment, waker,
                   rcvFrame, nCalls>>

PollRecv ==
    /\ panicked = "no"
    /\ UNCHANGED arpVars
    /\ IF rcv_base_seq_no = recv_seq_no
       THEN /\ IF rcv_state # "Open"
               THEN /\ result' = [op |-> "poll_recv",
                                  res |-> "Ready(ResourceNotFound: Receiver closed)"]
                    /\ UNCHANGED waker
               ELSE /\ result' = [op |-> "poll_recv", res |-> "Pending"]
                    /\ waker' = TRUE
            /\ UNCHANGED <<recv_queue, rcv_base_seq_no, available, delivered, panicked>>
       ELSE /\ result' = [op |-> "poll_recv", res |-> "Ready(Ok)"]
            /\ PopSegment
            /\ UNCHANGED waker
    /\ UNCHANGED <<rcv_state, ack_seq_no, recv_seq_no, ack_deadline,
                   last_segment_was_full_size, acked_last_full_size_segment,
                   rcvFrame, nCalls>>

Peek ==
    /\ panicked = "no"
    /\ UNCHANGED arpVars
    /\ IF rcv_base_seq_no = recv_seq_no
       THEN /\ result' = [op |-> "peek",
                          res |-> IF rcv_state # "Open"
                                  THEN "ResourceNotFound: Receiver closed"
                                  ELSE "ResourceExhausted: No available data"]
            /\ UNCHANGED panicked
       ELSE IF recv_queue = <<>>
       THEN /\ panicked' = "recv_seq > base_seq without data in queue?"
            /\ UNCHANGED result
       ELSE /\ result' = [op |-> "peek", res |-> "Ok", segment |-> Head(recv_queue)]
            /\ UNCHANGED panicked
    /\ UNCHANGED <<rcvVars, rcvFrame, nCalls>>

\* Fault injection: ack_sent that clears the deadline but does not record the
\* acknowledged number
AckSentKeepsAckSeqNo(seq_no) ==
    /\ panicked = "no"
    /\ UNCHANGED arpVars
    /\ IF seq_no # recv_seq_no
       THEN /\ panicked' = "assertion failed: seq_no == recv_seq_no"
            /\ UNCHANGED <<ack_deadline, ack_seq_no, result>>
       ELSE /\ ack_deadline' = NoInstant
            /\ UNCHANGED ack_seq_no
            /\ result' = [op |-> "ack_sent", res |-> "Ok"]
            /\ UNCHANGED panicked
    /\ UNCHANGED <<rcv_state, rcv_base_seq_no, recv_seq_no, recv_queue, available,
                   last_segment_was_full_size, acked_last_full_size_segment, waker,
                   delivered, rcvFrame, nCalls>>

\* Receiver::ack_sent, called with the number the ACK carried (current_ack)
AckSent(seq_no) ==
    /\ panicked = "no"
    /\ UNCHANGED arpVars
    /\ IF seq_no # recv_seq_no
       THEN /\ panicked' = "assertion failed: seq_no == recv_seq_no"
            /\ UNCHANGED <<ack_deadline, ack_seq_no, result>>
       ELSE /\ ack_deadline' = NoInstant
            /\ ack_seq_no' = seq_no
            /\ result' = [op |-> "ack_sent", res |-> "Ok"]
            /\ UNCHANGED panicked
    /\ UNCHANGED <<rcv_state, rcv_base_seq_no, recv_seq_no, recv_queue, available,
                   last_segment_was_full_size, acked_last_full_size_segment, waker,
                   delivered, rcvFrame, nCalls>>

\* Receiver::receive_fin
ReceiveFin ==
    /\ panicked = "no"
    /\ UNCHANGED arpVars
    /\ rcv_state' = "ReceivedFin"
    /\ result' = [op |-> "receive_fin", res |-> "Ok"]
    /\ UNCHANGED <<rcv_base_seq_no, ack_seq_no, recv_seq_no, recv_queue, available,
                   ack_deadline, last_segment_was_full_size,
                   acked_last_full_size_segment, waker, delivered, panicked,
                   rcvFrame, nCalls>>

\* A segment arrives from the peer: in order or one byte off the seam
SegmentArrives ==
    \E seq_no \in {recv_seq_no, WAdd(recv_seq_no, 1)}, buf_len \in RecvSizes :
        /\ nCalls < MaxCalls
        /\ nCalls' = nCalls + 1
        /\ ReceiveData(seq_no, MkBytes(nCalls + 1, buf_len), now)
        /\ UNCHANGED <<panicked, rcvFrame>>

NextRecv ==
    \/ SegmentArrives
    \/ Recv
    \/ PollRecv
    \/ Peek
    \/ AckSent(CurrentAck)
    \/ ReceiveFin
    \/ Tick

RecvSpec == Init /\ [][NextRecv]_vars

Next ==
    \/ \E buf_len \in SendSizes : Send(buf_len)
    \/ \E ack \in AckInputs : RemoteAck(ack)
    \/ \E hdr \in WindowHdrs : UpdateRemoteWindow(hdr)
    \/ Close
    \/ DrainerEmit
    \/ RtxPoll
    \/ RtxArpResolved
    \/ ArpExpire
    \/ ArpInsert
    \/ Tick

Spec == Init /\ [][Next]_vars

\* ------------------------------------------------ Sender feeding a Receiver
\* The segments the receiver has accepted so far, in order
Accepted == delivered \o recv_queue

\* The network hands the next emitted segment to the peer's receiver
NetDeliver ==
    LET k == Len(Accepted) + 1
    IN /\ k <= Len(wire)
       /\ ReceiveData(wire[k].seq_num, wire[k].bytes, now)
       /\ UNCHANGED <<panicked, rcvFrame, nCalls>>

\* The peer's ACK (current_ack) comes back to remote_ack
AckFedBack ==
    /\ CurrentAck # base_seq_no
    /\ RemoteAck(CurrentAck)

NextRoundTrip ==
    \/ \E buf_len \in SendSizes : Send(buf_len)
    \/ \E hdr \in WindowHdrs : UpdateRemoteWindow(hdr)
    \/ DrainerEmit
    \/ NetDeliver
    \/ Recv
    \/ AckFedBack
    \/ Tick

RoundTripSpec == Init /\ [][NextRoundTrip]_vars

\* ------------------------------------------------- Sends of very large size
\* Buffers of a quarter and of half of the sequence space
BigSendSizes == {Half \div 2, Half}

NextBigSend ==
    \/ \E buf_len \in BigSendSizes \cup {MssBytes} : Send(buf_len)
    \/ \E ack \in AckInputs : RemoteAck(ack)
    \/ \E hdr \in WindowHdrs : UpdateRemoteWindow(hdr)
    \/ DrainerEmit
    \/ Tick

BigSendSpec == Init /\ [][NextBigSend]_vars

\* ------------------------------------------- Congestion control on one flow
\* Full-size segments, ACKs of the peer and retransmission timeouts on a
\* connection whose peer stays in the ARP cache.
MaxCcCalls == 6

\* The peer advertises room for five full-size segments
CcInitialWindow == 5 * MssBytes

InitCongestion == \E seq_no \in IsnChoices : InitWith(seq_no, CcInitialWindow)

\* The peer acknowledges nothing new, the first outstanding segment, or
\* everything sent.
CcAckInputs ==
    {base_seq_no, sent_seq_no}
    \cup (IF unacked_queue = <<>> THEN {}
          ELSE {WAdd(base_seq_no, Head(unacked_queue).bytes.len)})

CcSend == nCalls < MaxCcCalls /\ SendCall(MssBytes)

CcRemoteAck == nCalls < MaxCcCalls /\ \E ack \in CcAckInputs : RemoteAckCall(ack)

\* The retransmitter with CongestionControl::on_rto as its timeout arm's
\* congestion-control step: on_rto_fast_recovery is the update retransmitter()
\* makes by hand, on_rto_ss_ca the reduction that goes with it.
CcRtxPoll == RtxPollWith(CubicOnRto(cc, sent_seq_no))

NextCongestion ==
    \/ CcSend
    \/ CcRemoteAck
    \/ DrainerEmit
    \/ CcRtxPoll
    \/ Tick

CongestionSpec == InitCongestion /\ [][NextCongestion]_vars

\* ------------------------------------------------ Scenario: duplicate ACKs
\* Four full-size segments leave back to back; the peer then acknowledges up
\* to the second segment again and again.
ScenarioSegments == DupAckThreshold + 1
ScenarioAcks == DupAckThreshold + 1

ScenarioSend ==
    /\ nSends < ScenarioSegments
    /\ nCalls = nSends
    /\ SendCall(MssBytes)

\* Where the second segment starts, once all of them have left
SecondSegmentSeqNo == WSub(sent_seq_no, (ScenarioSegments - 1) * MssBytes)

ScenarioRemoteAck ==
    /\ nSends = ScenarioSegments
    /\ nCalls < ScenarioSegments + ScenarioAcks
    /\ RemoteAckCall(SecondSegmentSeqNo)

NextDupAckScenario ==
    \/ ScenarioSend
    \/ ScenarioRemoteAck
    \/ RtxPoll
    \/ Tick

DupAckScenarioSpec == InitCongestion /\ [][NextDupAckScenario]_vars

\* ------------------------------------------------------- Sends after idling
\* The clock runs one tick past the round-trip time a new connection assumes
IdleHorizon == CubicNew(0).rtt_at_last_send + 1

IdleTick == now < IdleHorizon /\ Elapse

NextIdle ==
    \/ \E buf_len \in SendSizes : Send(buf_len)
    \/ \E ack \in AckInputs : RemoteAck(ack)
    \/ RtxPoll
    \/ IdleTick

IdleSpec == Init /\ [][NextIdle]_vars

\* -------------------------------------------- Timeouts with no ACK arriving
\* The clock runs until the doubled RTO has reached its upper bound
RtoHorizon == RtoUpperBound + 4 * RtoLowerBound

\* The executor polls the retransmitter when its timer has fired; past the
\* first MaxTime ticks it does so before the clock moves on.
RtoTick ==
    /\ now < RtoHorizon
    /\ now <= MaxTime \/ rtx.pc # "select" \/ RtxReadyArm = "pending"
    /\ Elapse

\* The application sends during the first MaxTime ticks
RtoSend == now <= MaxTime /\ \E buf_len \in SendSizes : Send(buf_len)

NextRto ==
    \/ RtoSend
    \/ RtxPoll
    \/ RtoTick

\* The retransmitter is a background task the executor keeps polling
RtoSpec == Init /\ [][NextRto]_vars /\ WF_vars(RtxPoll)

\* ------------------------------------------- A sender with a wide window scale
\* Sender::new takes any u8 as window_scale; here a scale that is smaller than
\* the word width but shifts the upper window headers out of the word.
WideWindowScale == SeqBits - 2
\* The window header is half a word wide (u16 in a u32)
WideScaleHdrs == 0 .. (2 ^ (SeqBits - 2) - 1)

WideScaleUpdate(window_size_hdr) ==
    nCalls < MaxCalls /\ UpdateRemoteWindowWith(WideWindowScale, window_size_hdr)

NextWideScale ==
    \/ \E hdr \in WideScaleHdrs : WideScaleUpdate(hdr)
    \/ \E buf_len \in SendSizes : Send(buf_len)
    \/ \E ack \in AckInputs : RemoteAck(ack)
    \/ Close
    \/ DrainerEmit
    \/ Tick

WideScaleSpec == Init /\ [][NextWideScale]_vars

InitArp == InitFor(MssBytes)

\* HashTtlCache: an entry whose TTL has run out
HasExpired(r, t) == r.expiry # NoInstant /\ t >= r.expiry

\* HashTtlCache::get, mapped to the link address: live entries only
CacheGet(a, ipv4_addr) ==
    IF a.cache[ipv4_addr].present /\ ~HasExpired(a.cache[ipv4_addr], a.now)
    THEN a.cache[ipv4_addr].link_addr
    ELSE NoMac

\* HashTtlCache::insert_with_ttl
CacheInsert(a, ipv4_addr, link_addr, ttl) ==
    [a.cache EXCEPT ![ipv4_addr] =
        [present |-> TRUE, link_addr |-> link_addr,
         expiry |-> IF ttl = NoTtl THEN NoInstant ELSE a.now + ttl]]

\* Fault injection: a wake-up that gets lost
SenderSendLost(futures, waiter, link_addr) == futures

\* oneshot Sender::send: fills the channel unless the receiver is gone
SenderSend(futures, waiter, link_addr) ==
    IF waiter # NoWaiter /\ futures[waiter].out = "pending"
    THEN [futures EXCEPT ![waiter].out = link_addr]
    ELSE futures

\* Fault injection: the waiter is notified and kept in the map
WaitersKeep(waiters, ipv4_addr) == waiters

\* self.waiters.remove(&ipv4_addr)
WaitersRemove(waiters, ipv4_addr) == [waiters EXCEPT ![ipv4_addr] = NoWaiter]

ArpCall(op, res) ==
    /\ panicked = "no"
    /\ nCalls < MaxArpCalls
    /\ nCalls' = nCalls + 1
    /\ result' = [op |-> op, res |-> res]
    /\ UNCHANGED <<sndVars, rcvVars, arp_cached, now, rtx, wire, rtt_samples,
                   nSends, nArpEvents>>

\* ArpCache::insert_with_ttl
InsertWithTtl(ipv4_addr, link_addr, ttl) ==
    /\ ArpCall("insert_with_ttl", CacheGet(arp, ipv4_addr))
    /\ arp' = [arp EXCEPT !.cache = CacheInsert(arp, ipv4_addr, link_addr, ttl),
                          !.rmap[link_addr] = ipv4_addr,
                          !.waiters = WaitersRemove(arp.waiters, ipv4_addr)]
    /\ arp_futures' = SenderSend(arp_futures, arp.waiters[ipv4_addr], link_addr)
    /\ UNCHANGED panicked

\* ArpCache::insert
Insert(ipv4_addr, link_addr) ==
    /\ ArpCall("insert", CacheGet(arp, ipv4_addr))
    /\ arp' = [arp EXCEPT !.cache = CacheInsert(arp, ipv4_addr, link_addr, DefaultTtl),
                          !.rmap[link_addr] = ipv4_addr,
                          !.waiters = WaitersRemove(arp.waiters, ipv4_addr)]
    /\ arp_futures' = SenderSend(arp_futures, arp.waiters[ipv4_addr], link_addr)
    /\ UNCHANGED panicked

\* ArpCache::get_link_addr
GetLinkAddr(ipv4_addr) ==
    /\ ArpCall("get_link_addr", CacheGet(arp, ipv4_addr))
    /\ UNCHANGED <<arp, arp_futures, panicked>>

\* ArpCache::wait_link_addr: the future is resolved at once from the cache, or
\* its sender is registered; the map insert replaces a sender that is there,
\* which cancels that one's channel, and the assertion then fails
WaitLinkAddr(ipv4_addr) ==
    LET id == Len(arp_futures) + 1
        cached == CacheGet(arp, ipv4_addr)
        old == arp.waiters[ipv4_addr]
    IN /\ ArpCall("wait_link_addr", cached)
       /\ IF cached # NoMac
          THEN /\ arp_futures' = Append(arp_futures,
                       [ip |-> ipv4_addr, out |-> cached, registered |-> FALSE])
               /\ UNCHANGED <<arp, panicked>>
          ELSE /\ arp' = [arp EXCEPT !.waiters[ipv4_addr] = id]
               /\ arp_futures' =
                     Append(IF old # NoWaiter /\ arp_futures[old].out = "pending"
                            THEN [arp_futures EXCEPT ![old].out = "canceled"]
                            ELSE arp_futures,
                            [ip |-> ipv4_addr, out |-> "pending", registered |-> TRUE])
               /\ panicked' = IF old # NoWaiter
                              THEN "assertion failed: self.waiters.insert(ipv4_addr, tx).is_none()"
                              ELSE "no"

\* The owner of a pending future drops it; its sender stays in the map
DropFuture(id) ==
    /\ panicked = "no"
    /\ arp_futures[id].out = "pending"
    /\ arp_futures' = [arp_futures EXCEPT ![id].out = "dropped"]
    /\ UNCHANGED <<sndVars, rcvVars, arp_cached, now, rtx, wire, rtt_samples,
                   nSends, nArpEvents, nCalls, result, panicked, arp>>

\* ArpCache::advance_clock
AdvanceClock(t) ==
    /\ t > arp.now
    /\ ArpCall("advance_clock", NoMac)
    /\ arp' = [arp EXCEPT !.now = t]
    /\ UNCHANGED <<arp_futures, panicked>>

Expired(a) == {ip \in Ipv4Addrs : a.cache[ip].present /\ HasExpired(a.cache[ip], a.now)}

\* ArpCache::try_evict(count): up to count expired entries leave both maps
TryEvict(count) ==
    /\ ArpCall("try_evict", NoMac)
    /\ \E evicted \in SUBSET Expired(arp) :
          /\ Cardinality(evicted) = Min(count, Cardinality(Expired(arp)))
          /\ arp' = [arp EXCEPT
                 !.cache = [ip \in Ipv4Addrs |->
                              IF ip \in evicted THEN NoRecord ELSE arp.cache[ip]],
                 !.rmap = [mac \in MacAddresses |->
                              IF \E ip \in evicted : arp.cache[ip].link_addr = mac
                              THEN NoIp ELSE arp.rmap[mac]]]
    /\ UNCHANGED <<arp_futures, panicked>>

\* ArpCache::clear
Clear ==
    /\ ArpCall("clear", NoMac)
    /\ arp' = [arp EXCEPT !.cache = [ip \in Ipv4Addrs |-> NoRecord],
                          !.rmap = [mac \in MacAddresses |-> NoIp]]
    /\ UNCHANGED <<arp_futures, panicked>>

NextArp ==
    \/ \E ip \in Ipv4Addrs, mac \in MacAddresses : Insert(ip, mac)
    \/ \E ip \in Ipv4Addrs, mac \in MacAddresses, ttl \in Ttls :
          InsertWithTtl(ip, mac, ttl)
    \/ \E ip \in Ipv4Addrs : GetLinkAddr(ip)
    \/ \E ip \in Ipv4Addrs : WaitLinkAddr(ip)
    \/ \E id \in 1..Len(arp_futures) : DropFuture(id)
    \/ \E t \in 1..MaxArpTime : AdvanceClock(t)
    \/ \E count \in 1..Cardinality(Ipv4Addrs) : TryEvict(count)
    \/ Clear

ArpSpec == InitArp /\ [][NextArp]_vars

\* The flow of CongestionSpec with a retransmitter the executor keeps polling
FairCongestionSpec ==
    InitCongestion /\ [][NextCongestion]_vars /\ WF_vars(CcRtxPoll)

\* ------------------------------------------ Scenario: one recovery episode
\* Two full-size segments leave back to back; the peer then sends duplicate
\* and new-data ACKs while nothing more is sent.
EpisodeSegments == 2
MaxEpisodeAcks == 8

EpisodeSend ==
    /\ nSends < EpisodeSegments
    /\ nCalls = nSends
    /\ SendCall(MssBytes)

EpisodeRemoteAck ==
    /\ nSends = EpisodeSegments
    /\ nCalls < EpisodeSegments + MaxEpisodeAcks
    /\ \E ack \in CcAckInputs : RemoteAckCall(ack)

NextEpisode ==
    \/ EpisodeSend
    \/ EpisodeRemoteAck
    \/ RtxPoll

EpisodeSpec == InitCongestion /\ [][NextEpisode]_vars


\* ------------------------------------------------- Closing the connection
\* The connection's closing task, which is not part of the sources at hand:
\* after close(), once everything queued has been transmitted, it emits the
\* FIN with sequence number sent_seq_no and sets the state SentFin. Nothing
\* else sets SentFin.
SendFin ==
    /\ panicked = "no"
    /\ UNCHANGED arpVars
    /\ state = "Closed"
    /\ sent_seq_no = unsent_seq_no
    /\ arp_cached
    /\ state' = "SentFin"
    /\ wire' = Append(wire, Emission(sent_seq_no, [id |-> 0, len |-> 0, off |-> 0], "fin"))
    /\ UNCHANGED <<base_seq_no, sent_seq_no, unsent_seq_no, unacked_queue,
                   unsent_queue, window_size, retransmit_deadline, rto, cc,
                   rcvVars, arp_cached, now, rtx, result, rtt_samples, panicked,
                   nCalls, nSends, nArpEvents>>

NextFin ==
    \/ \E buf_len \in SendSizes : Send(buf_len)
    \/ \E ack \in AckInputs : RemoteAck(ack)
    \/ Close
    \/ SendFin
    \/ Tick

FinSpec == Init /\ [][NextFin]_vars


\* ---------------------------------------- The ARP cache, forward and reverse
\* ArpCache::remove: the record leaves the forward cache, its link address
\* the reverse map
Remove(ipv4_addr) ==
    LET record == arp.cache[ipv4_addr]
    IN /\ ArpCall("remove", NoMac)
       /\ IF record.present
          THEN /\ arp' = [arp EXCEPT !.cache[ipv4_addr] = NoRecord,
                                     !.rmap[record.link_addr] = NoIp]
               /\ panicked' =
                     IF arp.rmap[record.link_addr] = NoIp
                     THEN "assertion failed: self.rmap.remove(&record.link_addr).is_some()"
                     ELSE "no"
          ELSE /\ panicked' = "attempt to remove unrecognized engine from ARP cache"
               /\ UNCHANGED arp
       /\ UNCHANGED arp_futures

\* The orders in which a hash map may hand out its keys
Orders(d) ==
    {order \in UNION {[1..n -> d] : n \in {Cardinality(d)}} :
        \A i, j \in DOMAIN order : i # j => order[i] # order[j]}

\* The inserts of import, one key after the other
RECURSIVE ImportInserts(_, _, _)
ImportInserts(st, order, cache) ==
    IF order = <<>> THEN st
    ELSE LET k == Head(order)
             a == st.arp
         IN ImportInserts(
                [arp |-> [a EXCEPT !.cache = CacheInsert(a, k, cache[k], DefaultTtl),
                                   !.rmap[cache[k]] = k,
                                   !.waiters = WaitersRemove(a.waiters, k)],
                 futures |-> SenderSend(st.futures, a.waiters[k], cache[k])],
                Tail(order), cache)

\* ArpCache::import: clear, then insert every pair of the map
Import(cache) ==
    LET cleared == [arp EXCEPT !.cache = [ip \in Ipv4Addrs |-> NoRecord],
                               !.rmap = [mac \in MacAddresses |-> NoIp]]
    IN /\ ArpCall("import", NoMac)
       /\ \E order \in Orders(DOMAIN cache) :
             LET st == ImportInserts([arp |-> cleared, futures |-> arp_futures],
                                     order, cache)
             IN /\ arp' = st.arp
                /\ arp_futures' = st.futures
       /\ UNCHANGED panicked

NextArpMaps ==
    \/ \E ip \in Ipv4Addrs, mac \in MacAddresses : Insert(ip, mac)
    \/ \E ip \in Ipv4Addrs, mac \in MacAddresses, ttl \in Ttls :
          InsertWithTtl(ip, mac, ttl)
    \/ \E ip \in Ipv4Addrs : Remove(ip)
    \/ \E t \in 1..MaxArpTime : AdvanceClock(t)
    \/ \E count \in 1..Cardinality(Ipv4Addrs) : TryEvict(count)
    \/ Clear
    \/ \E cache \in UNION {[d -> MacAddresses] : d \in SUBSET Ipv4Addrs} :
          Import(cache)

ArpMapsSpec == InitArp /\ [][NextArpMaps]_vars


\* ------------------------------------------ Sender without congestion control
\* The connection starts with either construction of the variant that does
\* nothing
InitNone ==
    \E seq_no \in IsnChoices :
        \E congestion_ctrl \in {NoCongestionControlNew(seq_no), NoneNew(seq_no)} :
            InitWithCc(seq_no, CcInitialWindow, congestion_ctrl)

NextNone ==
    \/ CcSend
    \/ CcRemoteAck
    \/ DrainerEmit
    \/ RtxPoll
    \/ Tick

NoneSpec == InitNone /\ [][NextNone]_vars

\* ===================================================================== claims
\* A step that is a call of remote_ack
IsRemoteAckStep == nCalls' = nCalls + 1 /\ result'.op = "remote_ack"

IgnoredResults == {"Ignored: ACK is outside of send window",
                   "Ignored: ACK isn't on segment boundary"}

\* C1: in every reachable state the lengths of the segments in unacked_queue
\* add up to sent_seq_no - base_seq_no (mod 2^32), also after a remote_ack
\* that returned an error.
C1_UnackedLengthIsSentMinusBase ==
    SumLen(SegBytes(unacked_queue)) = WSub(sent_seq_no, base_seq_no)

\* C2: in every reachable state retransmit_deadline is present exactly when
\* unacked_queue is non-empty.
C2_DeadlineIffUnacked ==
    (retransmit_deadline # NoInstant) <=> (unacked_queue # <<>>)

\* The sequence number each piece of payload has or will get: what is on the
\* wire has the number of its header; what waits in unsent_queue is emitted
\* from its front with sent_seq_no.
FirstTransmissions == {i \in 1..Len(wire) : wire[i].cause \in {"send", "drain"}}

AssignedSeqNo ==
    {[id |-> wire[i].bytes.id, seq_no |-> wire[i].seq_num] : i \in FirstTransmissions}
        \cup {[id |-> unsent_queue[k].id,
               seq_no |-> WAdd(sent_seq_no, SumLen(SubSeq(unsent_queue, 1, k - 1)))] :
              k \in 1..Len(unsent_queue)}

\* C3: the bytes of an earlier send call always have lower (modular) sequence
\* numbers than the bytes of any later send call, for every interleaving of
\* send, remote_ack, window updates and the unsent drainer.
C3_PayloadInCallOrder ==
    \A a, b \in AssignedSeqNo :
        a.id < b.id => Signed(WSub(b.seq_no, a.seq_no)) > 0

\* C4: retransmit never reads the head of an empty unacked_queue: the panic
\* "Retransmission timer set with empty acknowledge queue" is unreachable.
C4_RetransmitQueueNonEmpty ==
    panicked # "Retransmission timer set with empty acknowledge queue"

\* C6: a remote_ack that returns Fail::Ignored leaves base_seq_no, sent_seq_no,
\* unacked_queue, retransmit_deadline and the RTO estimator as they were.
C6_IgnoredAckHasNoEffect ==
    [][(IsRemoteAckStep /\ result'.res \in IgnoredResults)
          => UNCHANGED <<base_seq_no, sent_seq_no, unacked_queue,
                         retransmit_deadline, rto>>]_vars

\* The payload of the first n segments put on the wire
Emitted(n) == [i \in 1..n |-> wire[i].bytes]

\* The segments the receiver has accepted and the sender has not yet seen
\* acknowledged
AcceptedNotAcked == SubSeq(Emitted(Len(wire)), Len(wire) - Len(unacked_queue) + 1,
                           Len(Accepted))

\* C5: round trip. When the receiver has received exactly the segments the
\* sender emitted, draining recv_queue yields exactly the emitted bytes, and
\* feeding the receiver's ACK back to remote_ack succeeds and advances
\* base_seq_no by exactly the number of bytes received.
C5_RoundTrip ==
    /\ [](recv_queue = <<>> => Flatten(delivered) = Flatten(Emitted(Len(delivered))))
    /\ [][IsRemoteAckStep =>
            /\ result'.res = "Ok"
            /\ SumLen(AcceptedNotAcked) > 0
            /\ WSub(base_seq_no', base_seq_no) = SumLen(AcceptedNotAcked)
            /\ base_seq_no' = CurrentAck]_vars

\* A round trip across the wrap of the sequence space has completed
C5_Witness ==
    /\ result = [op |-> "remote_ack", res |-> "Ok"]
    /\ delivered # <<>>
    /\ recv_queue = <<>>
    /\ Flatten(delivered) = Flatten(Emitted(Len(wire)))
    /\ base_seq_no = recv_seq_no
    /\ base_seq_no < wire[1].seq_num

\* C7: in every reachable state of the receiver base_seq_no <= ack_seq_no <=
\* recv_seq_no under modular (half-circle) comparison.
C7_ReceiverOrder ==
    /\ Signed(WSub(ack_seq_no, rcv_base_seq_no)) >= 0
    /\ Signed(WSub(recv_seq_no, ack_seq_no)) >= 0

\* C8: in every reachable state of the receiver the lengths of the buffers in
\* recv_queue add up to recv_seq_no - base_seq_no (mod 2^32) and to available.
C8_RecvQueueLength ==
    /\ SumLen(recv_queue) = WSub(recv_seq_no, rcv_base_seq_no)
    /\ SumLen(recv_queue) = available

\* recv has taken a segment and left another, with the window across the wrap
C8_Witness ==
    /\ result = [op |-> "recv", res |-> "Ok(Some)"]
    /\ recv_queue # <<>>
    /\ delivered # <<>>
    /\ recv_seq_no < rcv_base_seq_no

\* C9: in every reachable state of the sender base_seq_no <= sent_seq_no <=
\* unsent_seq_no under modular comparison: the differences sent - base,
\* unsent - base and unsent - sent, read as signed words, are non-negative,
\* whatever the number and sizes of the send calls.
C9_SenderOrder ==
    /\ Signed(WSub(sent_seq_no, base_seq_no)) >= 0
    /\ Signed(WSub(unsent_seq_no, base_seq_no)) >= 0
    /\ Signed(WSub(unsent_seq_no, sent_seq_no)) >= 0

\* The segments retransmit has put on the wire again
Retransmitted ==
    {wire[i].bytes : i \in {j \in 1..Len(wire) :
                               wire[j].cause \in {"TimeOut", "FastRetransmit"}}}

\* The segments a successful remote_ack step takes off unacked_queue
Covered == {unacked_queue[i].bytes : i \in 1..(Len(unacked_queue) - Len(unacked_queue'))}

\* C10: Karn's rule. remote_ack feeds the RTO estimator a sample only for
\* segments that were never retransmitted; an ACK that covers a retransmitted
\* segment adds no sample for it (the estimator is untouched when it covers
\* nothing else), and the segments behind it that were sent once are sampled.
C10_KarnsRule ==
    [][IsRemoteAckStep =>
          /\ (rtt_samples' \ rtt_samples) \cap Retransmitted = {}
          /\ result'.res = "Ok" => (Covered \ Retransmitted) \subseteq rtt_samples'
          /\ (result'.res = "Ok" /\ Covered \subseteq Retransmitted) => rto' = rto]_vars

\* An ACK has covered a retransmitted segment and a later segment sent once:
\* only the later one was sampled
C10_Witness ==
    /\ result = [op |-> "remote_ack", res |-> "Ok"]
    /\ \E r \in Retransmitted :
          /\ r \notin rtt_samples
          /\ \A i \in 1..Len(unacked_queue) : unacked_queue[i].bytes # r
          /\ \E s \in rtt_samples : s.id > r.id

\* A step that is a call of receive_data, and one that accepted the segment
IsReceiveDataStep == nCalls' = nCalls + 1 /\ result'.op = "receive_data"
IsAcceptStep == IsReceiveDataStep /\ result'.res = "Ok"

\* An accepted full-size segment follows a full-size segment that is not yet
\* acknowledged
SecondFullSizeArrives ==
    /\ IsAcceptStep
    /\ Accepted'[Len(Accepted')].len = MssBytes
    /\ Accepted # <<>>
    /\ Accepted[Len(Accepted)].len = MssBytes
    /\ ack_seq_no # recv_seq_no

\* C11 as stated: for every pair of consecutive accepted full-size segments
\* of which the first is not yet acknowledged, ack_deadline is the arrival
\* time of the second after the second is received.
C11_EveryPairAckedAtArrival ==
    [][SecondFullSizeArrives => ack_deadline' = now]_vars

\* C11: RFC 1122 ACK law. After the second of two consecutive full-size
\* segments, the first not yet acknowledged, an ACK is due at once:
\* ack_deadline is present and not later than the arrival time of the second;
\* it equals that time when the first segment did not itself complete a pair
\* (acked_last_full_size_segment is false), that is on every second segment
\* of a run.
C11_AckDueAfterSecondFullSize ==
    [][SecondFullSizeArrives =>
          /\ ack_deadline' # NoInstant
          /\ ack_deadline' <= now
          /\ ~acked_last_full_size_segment => ack_deadline' = now]_vars

\* The second full-size segment of a pair arrived later than the first and
\* the ACK is due at its arrival time
C11_Witness ==
    /\ result = [op |-> "receive_data", res |-> "Ok"]
    /\ Len(Accepted) >= 2
    /\ Accepted[Len(Accepted)].len = MssBytes
    /\ Accepted[Len(Accepted) - 1].len = MssBytes
    /\ acked_last_full_size_segment
    /\ now > 0
    /\ ack_deadline = now
    /\ ack_seq_no # recv_seq_no

\* C12: after every successful receive_data ack_deadline is present and not
\* later than now + 500 ms; only ack_sent clears it, and ack_sent sets
\* ack_seq_no to recv_seq_no; so an ACK that is owed (ack_seq_no # recv_seq_no)
\* always has a deadline.
C12_AckOwedHasDeadline ==
    /\ [](ack_seq_no # recv_seq_no => ack_deadline # NoInstant)
    /\ [][IsAcceptStep => (ack_deadline' # NoInstant /\ ack_deadline' <= now + AckDelay)]_vars
    /\ [][(ack_deadline # NoInstant /\ ack_deadline' = NoInstant)
             => (result'.op = "ack_sent" /\ ack_seq_no' = recv_seq_no')]_vars

\* ack_sent has cleared the deadline of an owed ACK
C12_Witness ==
    /\ result = [op |-> "ack_sent", res |-> "Ok"]
    /\ ack_deadline = NoInstant
    /\ ack_seq_no = recv_seq_no
    /\ recv_seq_no # rcv_base_seq_no
    /\ now > 0

\* What a failing receive_data must leave alone
rcvUntouched == <<recv_seq_no, rcv_base_seq_no, ack_seq_no, recv_queue, available,
                  ack_deadline, last_segment_was_full_size,
                  acked_last_full_size_segment, waker>>

\* C19: receive_data fails with ResourceNotFound when the receiver is not
\* Open, else with Ignored when seq # recv_seq_no, else with Ignored ("Full
\* receive window") when the queued bytes plus |buf| exceed max_window_size;
\* a failing call changes none of recv_seq_no, base_seq_no, ack_seq_no,
\* recv_queue, available, ack_deadline and the delayed-ACK flags, and leaves
\* a registered waker in place.
C19_ReceiveDataFailures ==
    [][\A seq_no \in {recv_seq_no, WAdd(recv_seq_no, 1)}, buf_len \in RecvSizes :
          (IsReceiveDataStep /\ ReceiveData(seq_no, MkBytes(nCalls + 1, buf_len), now)) =>
              /\ rcv_state # "Open" =>
                    result'.res = "ResourceNotFound: Receiver closed"
              /\ (rcv_state = "Open" /\ seq_no # recv_seq_no) =>
                    result'.res = "Ignored: Out of order segment"
              /\ (rcv_state = "Open" /\ seq_no = recv_seq_no
                     /\ SumLen(recv_queue) + buf_len > RcvMaxWindowSize) =>
                    result'.res = "Ignored: Full receive window"
              /\ (rcv_state = "Open" /\ seq_no = recv_seq_no
                     /\ SumLen(recv_queue) + buf_len <= RcvMaxWindowSize) =>
                    result'.res = "Ok"
              /\ result'.res # "Ok" => UNCHANGED rcvUntouched]_vars

\* A segment was refused while a reader was waiting: the reader still waits
C19_Witness ==
    /\ result = [op |-> "receive_data", res |-> "Ignored: Out of order segment"]
    /\ waker
    /\ rcv_state = "Open"

\* A call of recv or poll_recv that returned a segment
IsPopStep == Len(delivered') = Len(delivered) + 1

\* C20: in every reachable state of the receiver recv_seq_no - base_seq_no is
\* at most max_window_size, so window_size() does not underflow and lies in
\* [0, max_window_size]; it goes down by |buf| on each accepted segment and up
\* by the segment's length on each recv or poll_recv that returns data.
C20_WindowSizeInRange ==
    /\ [](/\ WSub(recv_seq_no, rcv_base_seq_no) <= RcvMaxWindowSize
          /\ RcvWindowSize = RcvMaxWindowSize - WSub(recv_seq_no, rcv_base_seq_no)
          /\ RcvWindowSize \in 0..RcvMaxWindowSize)
    /\ [][IsAcceptStep => RcvWindowSize' = RcvWindowSize - Accepted'[Len(Accepted')].len]_vars
    /\ [][IsPopStep => RcvWindowSize' = RcvWindowSize + Head(recv_queue).len]_vars

\* The window is closed, across the wrap of the sequence space, and a further
\* segment was refused
C20_Witness ==
    /\ RcvWindowSize = 0
    /\ result = [op |-> "receive_data", res |-> "Ignored: Full receive window"]
    /\ recv_seq_no < rcv_base_seq_no

\* The n-th call of remote_ack in the duplicate-ACK scenario
IsScenarioAck(n) == IsRemoteAckStep /\ nSends = ScenarioSegments /\ nCalls = nSends + n - 1

\* What entering fast recovery leaves behind
EnteredFastRecovery ==
    /\ cc'.in_fast_recovery
    /\ cc'.recover = sent_seq_no
    /\ cc'.ssthresh = Max(MulBeta(cc.cwnd), 2 * MssBytes)
    /\ cc'.cwnd = MulBeta(cc.cwnd)
    /\ cc'.fast_retransmit_now

\* C13 as stated: in the scenario of four full-size segments followed by
\* remote_ack(second segment) three times, the third call enters fast
\* recovery: in_fast_recovery, recover = sent_seq_no, ssthresh = max(0.7 cwnd,
\* 2 mss), cwnd = 0.7 cwnd, fast_retransmit_now.
C13_ThirdCallEntersRecovery ==
    [][IsScenarioAck(DupAckThreshold) => EnteredFastRecovery]_vars

\* C13 amended: the first of the calls acknowledges new data, so it is the
\* fourth call (the third duplicate) that enters fast recovery, the third call
\* does not, and every emission of the retransmitter after the fourth call
\* carries the sequence number of the second segment.
C13_FourthCallEntersRecovery ==
    /\ [][IsScenarioAck(DupAckThreshold + 1) => EnteredFastRecovery]_vars
    /\ [][IsScenarioAck(DupAckThreshold) =>
              (~cc'.in_fast_recovery /\ ~cc'.fast_retransmit_now
               /\ cc'.duplicate_ack_count = DupAckThreshold - 1)]_vars
    /\ [][(nCalls = ScenarioSegments + ScenarioAcks /\ wire' # wire) =>
              /\ wire'[Len(wire')].seq_num = SecondSegmentSeqNo
              /\ wire'[Len(wire')].cause \in {"FastRetransmit", "TimeOut"}
              /\ wire'[Len(wire')].bytes = MkBytes(2, MssBytes)]_vars

\* The fourth call has entered fast recovery and the retransmitter has sent
\* the second segment again because of it.
C13_Witness ==
    /\ nCalls = ScenarioSegments + ScenarioAcks
    /\ nSends = ScenarioSegments
    /\ cc.in_fast_recovery
    /\ cc.recover = sent_seq_no
    /\ Len(wire) > ScenarioSegments
    /\ wire[Len(wire)].cause = "FastRetransmit"
    /\ wire[Len(wire)].seq_num = SecondSegmentSeqNo

\* A duplicate ACK that enters fast recovery (on_dup_ack_received, third
\* duplicate): it sets ssthresh and cuts cwnd.
IsFastRecoveryEntry ==
    /\ IsRemoteAckStep
    /\ cc'.duplicate_ack_count = cc.duplicate_ack_count + 1
    /\ DupAckEntersRecovery(cc, base_seq_no)

\* A retransmission timeout taken by on_rto
IsRtoStep ==
    /\ wire' # wire
    /\ wire'[Len(wire')].cause = "TimeOut"
    /\ cc'.last_congestion_was_rto
    /\ cc'.retransmitted_packets_in_flight = (cc.retransmitted_packets_in_flight + 1) % SeqMod

\* A retransmission timeout with no retransmitted packet in flight: on_rto_ss_ca
\* sets ssthresh and cuts cwnd.
IsRtoReduction == IsRtoStep /\ cc.retransmitted_packets_in_flight = 0

\* C15: whenever a CUBIC multiplicative reduction updates ssthresh (entry into
\* fast recovery on the third duplicate ACK, or an RTO with no retransmitted
\* packet in flight), the state right after it has cwnd >= 2 * mss.
C15_ReducedCwndAtLeastTwoSegments ==
    [][(IsFastRecoveryEntry \/ IsRtoReduction) => cc'.cwnd >= 2 * MssBytes]_vars

\* C16: right after a congestion event that runs fast_convergence (entry into
\* fast recovery, or an RTO taken by on_rto), w_max >= cwnd.
C16_WMaxAtLeastCwnd ==
    [][((IsFastRecoveryEntry \/ IsRtoStep) /\ cc.fast_convergence)
          => cc'.w_max >= cc'.cwnd]_vars

\* Two congestion events in a row from the initial window: the second one
\* found cwnd below w_max and took the reducing branch of fast_convergence.
C16_Witness ==
    /\ cc.fast_convergence
    /\ cc.last_congestion_was_rto
    /\ cc.cwnd = MulBeta(MulBeta(InitialCwnd))
    /\ cc.w_max = MulFastConv(MulBeta(InitialCwnd))
    /\ cc.w_max > cc.cwnd

\* A step that is a call of send
IsSendStep == nSends' = nSends + 1 /\ result'.op = "send"

\* min(window_size, cwnd + limited_transmit_cwnd_increase)
C18_Budget(win, c) == Min(win, c.cwnd + c.limited_transmit_cwnd_increase)

\* C18: send on an Open sender emits at once exactly when (sent - base) + |buf|
\* <= min(window_size, cwnd + limited_transmit_cwnd_increase) and the ARP lookup
\* succeeds; otherwise it appends to unsent_queue and advances only
\* unsent_seq_no; after an emission by send the bytes in flight are at most
\* min(window_size, cwnd + limited_transmit_cwnd_increase).
C18_SendEmitsIffBudget ==
    [][(IsSendStep /\ state = "Open") =>
          LET buf_len == WSub(unsent_seq_no', unsent_seq_no)
              in_flight == WSub(sent_seq_no, base_seq_no)
              emitted == wire' # wire
          IN /\ emitted <=> (/\ in_flight + buf_len <= C18_Budget(window_size, cc)
                             /\ arp_cached)
             /\ ~emitted => /\ Len(unsent_queue') = Len(unsent_queue) + 1
                            /\ UNCHANGED <<base_seq_no, sent_seq_no, unacked_queue>>
             /\ emitted => WSub(sent_seq_no', base_seq_no') <= C18_Budget(window_size', cc')]_vars

\* The sender has been idle for longer than rtt_at_last_send
IdleTooLong == now - cc.last_send_time > cc.rtt_at_last_send

\* C17: a send after an idle time longer than rtt_at_last_send sets cwnd to
\* min(initial_cwnd, cwnd) before the window check, and the check
\* on_cwnd_check_before_send itself does so; after a shorter idle time the
\* check leaves cwnd alone.
C17_IdleRestart ==
    /\ [][(IsSendStep /\ state = "Open" /\ IdleTooLong)
             => cc'.cwnd = Min(InitialCwnd % SeqMod, cc.cwnd)]_vars
    /\ [](\A o \in OnCwndCheckBeforeSendOutcomes(cc, now) :
             o.cc.cwnd = IF IdleTooLong THEN Min(InitialCwnd % SeqMod, cc.cwnd)
                         ELSE cc.cwnd)

\* The retransmissions on timeout emitted so far
TimeOutEmissions == SelectSeq(wire, LAMBDA e : e.cause = "TimeOut")

\* A step in which the retransmitter re-emits because of a timeout
IsTimeOutEmission == wire' # wire /\ wire'[Len(wire')].cause = "TimeOut"

\* The retransmit deadline has elapsed
DeadlineElapsed == retransmit_deadline # NoInstant /\ now >= retransmit_deadline

\* C14: with no ACK arriving, when retransmit_deadline has elapsed the
\* retransmitter re-emits exactly the head of unacked_queue with seq_num =
\* base_seq_no, doubles the RTO up to its upper bound, clears the head's
\* initial_tx, sets retransmit_deadline to now + rto.estimate() and leaves the
\* sequence numbers and the rest of unacked_queue alone; and every elapsed
\* deadline leads to such a retransmission, which is the only step that
\* moves the deadline on.
C14_RtoPath ==
    /\ [][IsTimeOutEmission =>
              /\ DeadlineElapsed
              /\ wire' = Append(wire, Emission(base_seq_no, Head(unacked_queue).bytes,
                                               "TimeOut"))
              /\ RtoEstimate(rto') = Min(2 * RtoEstimate(rto), RtoUpperBound)
              /\ retransmit_deadline' = now + RtoEstimate(rto')
              /\ unacked_queue' = [unacked_queue EXCEPT ![1].initial_tx = NoInstant]
              /\ UNCHANGED <<base_seq_no, sent_seq_no, unsent_seq_no, unsent_queue>>]_vars
    /\ [][(DeadlineElapsed /\ ~DeadlineElapsed') => IsTimeOutEmission]_vars
    /\ DeadlineElapsed ~> ~DeadlineElapsed

\* Timeout after timeout has doubled the RTO up to its upper bound, with a
\* second segment waiting behind the head that is re-emitted.
C14_Witness ==
    /\ Len(unacked_queue) >= 2
    /\ Len(TimeOutEmissions) >= 2
    /\ RtoEstimate(rto) = RtoUpperBound
    /\ unacked_queue[1].initial_tx = NoInstant
    /\ unacked_queue[2].initial_tx # NoInstant
    /\ \A i \in 1..Len(TimeOutEmissions) : TimeOutEmissions[i].seq_num = base_seq_no

\* The answers of peek, recv and poll_recv when there is nothing to hand out
NoDataYet == {"ResourceExhausted: No available data", "Ok(None)", "Pending"}
ReceiverClosed == {"ResourceNotFound: Receiver closed",
                   "Ready(ResourceNotFound: Receiver closed)"}

\* C21: peek, recv and poll_recv hand out the buffered segments in arrival
\* order, recv and poll_recv each segment once; they report "no data yet" on
\* an Open receiver and "closed" otherwise when the queue is empty, and hand
\* out the oldest segment when it is not, so that "closed" is reported only
\* when everything buffered before receive_fin has been delivered; peek
\* changes nothing in the receiver.
C21_ReadersAreFifo ==
    /\ [][IsPopStep => /\ recv_queue # <<>>
                       /\ delivered' = Append(delivered, Head(recv_queue))
                       /\ recv_queue' = Tail(recv_queue)
                       /\ result'.res \in {"Ok(Some)", "Ready(Ok)"}]_vars
    /\ [][\/ Accepted' = Accepted
          \/ IsAcceptStep /\ SubSeq(Accepted', 1, Len(Accepted)) = Accepted
                          /\ Len(Accepted') = Len(Accepted) + 1]_vars
    /\ [](\A i, j \in 1..Len(Accepted) : Accepted[i].id = Accepted[j].id => i = j)
    /\ [][(Recv \/ PollRecv \/ Peek) =>
             /\ recv_queue = <<>> =>
                   result'.res \in (IF rcv_state = "Open" THEN NoDataYet ELSE ReceiverClosed)
             /\ result'.res \in ReceiverClosed =>
                   (rcv_state # "Open" /\ recv_queue = <<>>)
             /\ recv_queue # <<>> =>
                   result'.res \in {"Ok", "Ok(Some)", "Ready(Ok)"}]_vars
    /\ [][Peek => /\ UNCHANGED rcvVars
                  /\ result'.res = "Ok" => result'.segment = Head(recv_queue)]_vars

\* A step that is a call of close
IsCloseStep == nCalls' = nCalls + 1 /\ result'.op = "close"

\* What a failing close or send leaves alone
C22_Untouched == <<state, base_seq_no, sent_seq_no, unsent_seq_no, unacked_queue,
                   unsent_queue, wire>>

\* C22: close succeeds only from Open and moves the sender to Closed; a sender
\* that has left Open never returns to it, so every later close fails with
\* Ignored, as does every send on a sender that is not Open; a failing close or
\* send leaves the state, both queues and the three sequence numbers
\* unchanged and emits nothing.
C22_CloseAndSendOnClosed ==
    /\ [][IsCloseStep =>
             IF state = "Open"
             THEN result'.res = "Ok" /\ state' = "Closed"
             ELSE result'.res = "Ignored: Sender closed" /\ UNCHANGED C22_Untouched]_vars
    /\ [][state # "Open" => state' # "Open"]_vars
    /\ [][IsSendStep =>
             /\ state # "Open" <=> result'.res = "Ignored: Sender closed"
             /\ result'.res # "Ok" => UNCHANGED C22_Untouched]_vars

\* A second close has failed on a sender that had data in flight
C22_Witness ==
    /\ state = "Closed"
    /\ result = [op |-> "close", res |-> "Ignored: Sender closed"]
    /\ unacked_queue # <<>>
    /\ wire # <<>>

\* The step puts a first transmission on the wire
IsFirstTransmission ==
    /\ Len(wire') = Len(wire) + 1
    /\ wire'[Len(wire')].cause \in {"send", "drain"}

\* The buffers at the back of the two queues after the step
NewestBuffers ==
    (IF unsent_queue' = <<>> THEN {} ELSE {unsent_queue'[Len(unsent_queue')]})
    \cup (IF unacked_queue' = <<>> THEN {}
          ELSE {unacked_queue'[Len(unacked_queue')].bytes})

IsUpdateRemoteWindowStep ==
    nCalls' = nCalls + 1 /\ result'.op = "update_remote_window"

\* C24: update_remote_window(h) on an Open sender of scale WideWindowScale
\* stores window_size = h * 2^window_scale exactly, or fails with Ignored
\* ("Window size overflow") when that value does not fit in the word; on a
\* sender that is not Open it fails with Ignored; every failure leaves
\* window_size unchanged.
C24_WindowIsScaledExactly ==
    [][\A h \in WideScaleHdrs : WideScaleUpdate(h) =>
          IF state # "Open"
          THEN /\ result'.res # "Ok"
               /\ window_size' = window_size
          ELSE IF h * (2 ^ WideWindowScale) > U32Max
          THEN /\ result'.res = "Ignored: Window size overflow"
               /\ window_size' = window_size
          ELSE /\ result'.res = "Ok"
               /\ window_size' = h * (2 ^ WideWindowScale)]_vars

\* The step is insert or insert_with_ttl of link_addr for ipv4_addr
IsInsertStep(ipv4_addr, link_addr) ==
    \/ Insert(ipv4_addr, link_addr)
    \/ \E ttl \in Ttls : InsertWithTtl(ipv4_addr, link_addr, ttl)

\* The futures that wait for ipv4_addr
PendingOn(ipv4_addr) ==
    {id \in 1..Len(arp_futures) :
        arp_futures[id].ip = ipv4_addr /\ arp_futures[id].out = "pending"}

\* C25: wait_link_addr(ip) resolves at once with the cached MAC when ip has a
\* live entry; otherwise its future stays pending until the next insert or
\* insert_with_ttl for that ip and then holds the MAC of that insert, which
\* get_link_addr(ip) returns as well; inserts for other addresses,
\* advance_clock, try_evict and clear never resolve it.
C25_WaiterResolvedByItsInsert ==
    /\ [][\A ip \in Ipv4Addrs : WaitLinkAddr(ip) =>
             LET f == arp_futures'[Len(arp_futures')]
             IN /\ f.ip = ip
                /\ f.out = IF CacheGet(arp, ip) # NoMac THEN CacheGet(arp, ip)
                           ELSE "pending"]_vars
    /\ [][\A ip \in Ipv4Addrs, mac \in MacAddresses : IsInsertStep(ip, mac) =>
             /\ \A id \in PendingOn(ip) : arp_futures'[id].out = mac
             /\ CacheGet(arp', ip) = mac]_vars
    /\ [][\A id \in 1..Len(arp_futures) :
             (arp_futures[id].out = "pending" /\ arp_futures'[id].out \in MacAddresses)
                 => IsInsertStep(arp_futures[id].ip, arp_futures'[id].out)]_vars
    /\ [][(panicked' = "no" /\ ~(\E id \in 1..Len(arp_futures) : DropFuture(id))) =>
             \A id \in 1..Len(arp_futures) :
                 (arp_futures[id].out = "pending" /\ arp_futures'[id].out # "pending")
                     => arp_futures'[id].out \in MacAddresses]_vars

\* A future that was registered for an address the cache could not resolve
\* holds the link address of a later insert, which differs from the one the
\* other address has, and the cache answers with it
C25_Witness ==
    \E id \in 1..Len(arp_futures) :
        /\ arp_futures[id].registered
        /\ arp_futures[id].out \in MacAddresses
        /\ CacheGet(arp, arp_futures[id].ip) = arp_futures[id].out
        /\ \E other \in Ipv4Addrs \ {arp_futures[id].ip} :
              /\ arp.cache[other].present
              /\ arp.cache[other].link_addr # arp_futures[id].out
        /\ result.op \in {"insert", "insert_with_ttl"}

\* The futures for ipv4_addr whose sender went into the waiters map and has
\* not been used
RegisteredOn(ipv4_addr) ==
    {id \in 1..Len(arp_futures) :
        /\ arp_futures[id].ip = ipv4_addr
        /\ arp_futures[id].registered
        /\ arp_futures[id].out \in {"pending", "dropped"}}

\* C26: as long as no assertion has failed the cache holds at most one
\* registered waiter per address (every pending future is the one in the
\* waiters map), and none for an address it can resolve; a
\* waiter for ip gets registered only by wait_link_addr(ip) on an unresolved ip
\* and leaves with the next insert for ip; wait_link_addr(ip) fails its
\* assertion exactly when a waiter for ip is registered.
C26_OneWaiterPerAddress ==
    /\ [](panicked = "no" =>
            \A ip \in Ipv4Addrs :
                /\ PendingOn(ip) \subseteq {arp.waiters[ip]} \ {NoWaiter}
                /\ arp.waiters[ip] # NoWaiter => arp.waiters[ip] \in RegisteredOn(ip)
                /\ arp.waiters[ip] # NoWaiter => CacheGet(arp, ip) = NoMac)
    /\ [][\A ip \in Ipv4Addrs :
            /\ (arp.waiters[ip] = NoWaiter /\ arp.waiters'[ip] # NoWaiter)
                   => (WaitLinkAddr(ip) /\ CacheGet(arp, ip) = NoMac)
            /\ (arp.waiters[ip] # NoWaiter /\ arp.waiters'[ip] = NoWaiter)
                   => \E mac \in MacAddresses : IsInsertStep(ip, mac)
            /\ (\E mac \in MacAddresses : IsInsertStep(ip, mac))
                   => arp.waiters'[ip] = NoWaiter
            /\ WaitLinkAddr(ip)
                   => (panicked' # "no" <=> arp.waiters[ip] # NoWaiter)]_vars

\* wait_link_addr has just registered a waiter for an address whose earlier
\* waiter was resolved by an insert and whose entry has expired since
C26_Witness ==
    /\ panicked = "no"
    /\ result.op = "wait_link_addr"
    /\ \E ip \in Ipv4Addrs :
          /\ arp.waiters[ip] # NoWaiter
          /\ arp.cache[ip].present
          /\ \E id \in 1..Len(arp_futures) :
                /\ arp_futures[id].ip = ip
                /\ arp_futures[id].registered
                /\ arp_futures[id].out \in MacAddresses

\* wait_link_addr has failed its assertion
C26_AssertionWitness ==
    /\ panicked # "no"
    /\ result.op = "wait_link_addr"

\* C27: a remote_ack that arrives in fast recovery and acknowledges all data
\* that was outstanding when fast recovery was entered (ack at or past
\* recover, as the ACK that empties unacked_queue is) leaves in_fast_recovery
\* false and does not raise fast_retransmit_now; no reachable state has
\* in_fast_recovery = true and an empty unacked_queue.
C27_FastRecoveryTerminates ==
    /\ [][(/\ IsRemoteAckStep
           /\ result'.res = "Ok"
           /\ cc.in_fast_recovery
           /\ base_seq_no' # base_seq_no
           /\ Signed(WSub(base_seq_no', cc.recover)) >= 0)
              => /\ ~cc'.in_fast_recovery
                 /\ cc'.fast_retransmit_now => cc.fast_retransmit_now]_vars
    /\ [](~(cc.in_fast_recovery /\ unacked_queue = <<>>))

\* The retransmitter re-emits the head segment with cause FastRetransmit
IsFastRetransmitEmission ==
    /\ unacked_queue # <<>>
    /\ wire' = Append(wire, Emission(base_seq_no, Head(unacked_queue).bytes,
                                     "FastRetransmit"))

\* C28: whenever fast_retransmit_now is raised while unacked_queue is
\* non-empty, the retransmitter eventually answers it with one FastRetransmit
\* re-emission of the head segment (seq = base_seq_no): the flag is cleared
\* only in the step of such a re-emission, every such re-emission answers a
\* raised flag and clears it, the change signal of the flag that the
\* retransmitter holds is used up by nothing but such a re-emission, and a
\* raised flag does not stay raised for ever over a non-empty unacked_queue.
C28_FastRetransmitIsPerformed ==
    /\ [][(/\ rtx.fast_retransmit_changed /\ ~rtx'.fast_retransmit_changed
           /\ unacked_queue # <<>> /\ panicked' = "no")
              => IsFastRetransmitEmission]_vars
    /\ [][(cc.fast_retransmit_now /\ ~cc'.fast_retransmit_now /\ panicked' = "no")
              => IsFastRetransmitEmission]_vars
    /\ [][(wire' # wire /\ wire'[Len(wire')].cause = "FastRetransmit")
              => /\ IsFastRetransmitEmission
                 /\ cc.fast_retransmit_now /\ ~cc'.fast_retransmit_now]_vars
    /\ (cc.fast_retransmit_now /\ unacked_queue # <<>>)
           ~> (~cc.fast_retransmit_now \/ unacked_queue = <<>> \/ panicked # "no")

\* remote_ack(ack) is a partial ACK in fast recovery
IsPartialAck(ack) ==
    /\ WSub(ack, base_seq_no) # 0
    /\ cc.in_fast_recovery
    /\ ~(ack > cc.recover)

\* remote_ack(ack) is a duplicate ACK that inflates cwnd by one segment
IsInflatingDupAck(ack) ==
    /\ WSub(ack, base_seq_no) = 0
    /\ ~DupAckEntersRecovery(cc, ack)
    /\ (cc.duplicate_ack_count + 1 > DupAckThreshold \/ cc.in_fast_recovery)

\* C29: for every ACK that remote_ack accepts the congestion window is
\* computed without underflow or overflow of the u32: a partial ACK in fast
\* recovery finds bytes_acknowledged <= cwnd, and the inflation of a
\* duplicate ACK, cwnd + mss, does not exceed u32::MAX.
C29_CwndWithoutWraparound ==
    [][\A ack \in CcAckInputs :
          (RemoteAckCall(ack) /\ result'.res = "Ok") =>
              /\ IsPartialAck(ack) => WSub(ack, base_seq_no) <= cc.cwnd
              /\ IsInflatingDupAck(ack) => cc.cwnd + MssBytes <= U32Max]_vars

\* C30: on every duplicate ACK ack_seq_no_diff is the modular distance
\* (ack_seq_no - prev_ack_seq_no) mod 2^32 and is computed without overflow of
\* the u32, also when ack_seq_no = prev_ack_seq_no and across the wraparound;
\* the heuristic holds exactly when cwnd > mss and the distance <= 4 * mss.
C30_AckSeqNoDiffIsModularDistance ==
    [][\A ack \in CcAckInputs :
          (RemoteAckCall(ack) /\ result'.res = "Ok" /\ WSub(ack, base_seq_no) = 0) =>
              /\ ~AckSeqNoDiffOverflows(ack, cc.prev_ack_seq_no)
              /\ AckSeqNoDiff(ack, cc.prev_ack_seq_no) = WSub(ack, cc.prev_ack_seq_no)
              /\ RetransmittedPacketDroppedHeuristic(cc, ack)
                    <=> (cc.cwnd > MssBytes
                         /\ WSub(ack, cc.prev_ack_seq_no) <= 4 * MssBytes)]_vars

\* C31: a duplicate ACK reduces the window (cwnd := 0.7 cwnd, ssthresh :=
\* max(0.7 cwnd, 2 mss), recover := sent_seq_no, fast_retransmit_now := true)
\* only when it makes duplicate_ack_count exactly 3 and the sender is not in
\* fast recovery; the first and the second duplicate ACK leave cwnd and
\* ssthresh alone; a duplicate ACK that arrives in fast recovery only adds mss
\* to cwnd.
C31_OneReductionPerEpisode ==
    [][\A ack \in CcAckInputs :
          (RemoteAckCall(ack) /\ result'.res = "Ok" /\ WSub(ack, base_seq_no) = 0) =>
              /\ (cc'.cwnd < cc.cwnd \/ cc'.ssthresh # cc.ssthresh) =>
                    /\ cc'.duplicate_ack_count = DupAckThreshold
                    /\ ~cc.in_fast_recovery
                    /\ cc'.cwnd = MulBeta(cc.cwnd)
                    /\ cc'.ssthresh = Max(MulBeta(cc.cwnd), 2 * MssBytes)
                    /\ cc'.recover = sent_seq_no
                    /\ cc'.fast_retransmit_now
              /\ (cc'.duplicate_ack_count < DupAckThreshold /\ ~cc.in_fast_recovery) =>
                    (cc'.cwnd = cc.cwnd /\ cc'.ssthresh = cc.ssthresh)
              /\ cc.in_fast_recovery =>
                    (cc'.cwnd = cc.cwnd + MssBytes /\ cc'.ssthresh = cc.ssthresh)]_vars

\* remote_ack(ack) passes the window test with new data while the sender is
\* in fast recovery
IsNewDataAckInRecovery(ack) ==
    /\ RemoteAckCall(ack)
    /\ state # "SentFin"
    /\ WSub(ack, base_seq_no) # 0
    /\ WSub(ack, base_seq_no) <= WSub(sent_seq_no, base_seq_no)
    /\ cc.in_fast_recovery

After(a, b) == Signed(WSub(a, b)) > 0

\* C33: congestion control compares sequence numbers on the signed difference:
\* for values less than half the circle apart, a new-data ACK in fast recovery
\* is a full ACK exactly when ack is after recover, and a third duplicate ACK
\* that the heuristic does not let in enters fast recovery exactly when
\* ack - 1 is after recover, on whichever sides of the wraparound they lie.
C33_ComparisonsOnHalfCircle ==
    [][\A ack \in CcAckInputs :
          /\ (IsNewDataAckInRecovery(ack) /\ WSub(ack, cc.recover) # Half) =>
                (~cc'.in_fast_recovery <=> After(ack, cc.recover))
          /\ (/\ RemoteAckCall(ack) /\ WSub(ack, base_seq_no) = 0
              /\ cc'.duplicate_ack_count = DupAckThreshold
              /\ ~RetransmittedPacketDroppedHeuristic(cc, ack)
              /\ WSub(WSub(ack, 1), cc.recover) # Half) =>
                (DupAckEntersRecovery(cc, ack) <=> After(WSub(ack, 1), cc.recover))]_vars

\* C34: a retransmission timeout sets cwnd := 0.7 cwnd and
\* last_congestion_was_rto, leaves fast recovery with recover := sent_seq_no,
\* lowers ssthresh to max(0.7 cwnd, 2 mss) exactly when
\* retransmitted_packets_in_flight is 0, and then increments that counter; a
\* new-data ACK decrements the counter and stops at 0.
C34_RtoAndPacketsInFlight ==
    /\ [][IsRtoStep =>
             /\ cc'.cwnd = MulBeta(cc.cwnd)
             /\ cc'.last_congestion_was_rto
             /\ ~cc'.in_fast_recovery
             /\ cc'.recover = sent_seq_no
             /\ cc'.ssthresh = IF cc.retransmitted_packets_in_flight = 0
                               THEN Max(MulBeta(cc.cwnd), 2 * MssBytes)
                               ELSE cc.ssthresh
             /\ cc'.retransmitted_packets_in_flight =
                    cc.retransmitted_packets_in_flight + 1]_vars
    /\ [][\A ack \in CcAckInputs :
             (/\ RemoteAckCall(ack)
              /\ WSub(ack, base_seq_no) # 0
              /\ WSub(ack, base_seq_no) <= WSub(sent_seq_no, base_seq_no)) =>
                 cc'.retransmitted_packets_in_flight =
                     Max(cc.retransmitted_packets_in_flight - 1, 0)]_vars

\* C35: after every ACK that CUBIC has processed limited_transmit_cwnd_increase
\* is mss * duplicate_ack_count while fewer than three duplicate ACKs have
\* arrived in a row, and 0 from the third on: 0 after a new-data ACK, mss
\* after the first duplicate ACK, 2 mss after the second, 0 after the third
\* and every further one.
C35_LimitedTransmitIncrease ==
    [](cc.limited_transmit_cwnd_increase =
          IF cc.duplicate_ack_count < DupAckThreshold
          THEN MssBytes * cc.duplicate_ack_count
          ELSE 0)

\* C35 as stated: limited_transmit_cwnd_increase is mss * min(count, 2), also
\* after the third and every further duplicate ACK.
C35_AsStated ==
    [](cc.limited_transmit_cwnd_increase = MssBytes * Min(cc.duplicate_ack_count, 2))

\* A fourth duplicate ACK in a row has been processed, after the first and the
\* second one had raised the increase
C35_Witness ==
    /\ result = [op |-> "remote_ack", res |-> "Ok"]
    /\ cc.duplicate_ack_count = DupAckThreshold + 1
    /\ cc.limited_transmit_cwnd_increase = 0
    /\ unacked_queue # <<>>

\* C36: whenever a remote_ack advances base_seq_no past zero (the new
\* base_seq_no is numerically smaller than the old one) the congestion
\* controller is left as on_base_seq_no_wraparound leaves it, with recover 0;
\* when base_seq_no advances without wrapping, recover is not changed.
C36_WraparoundResetsRecover ==
    [][IsRemoteAckStep /\ base_seq_no' # base_seq_no
       => IF base_seq_no' < base_seq_no
          THEN cc'.recover = 0
          ELSE cc'.recover = cc.recover]_vars

\* C37: in state SentFin a remote_ack moves the sender to FinAckd only when
\* ack acknowledges the FIN (ack = sent_seq_no + 1); an ACK that does not
\* acknowledge the FIN leaves the state SentFin; and once FinAckd is reached
\* no operation leaves it.
C37_FinAckdOnlyByAckOfFin ==
    [][/\ \A ack \in AckInputs :
            (RemoteAckCall(ack) /\ state = "SentFin" /\ ack # WAdd(sent_seq_no, 1))
                => state' = "SentFin"
       /\ state = "FinAckd" => state' = "FinAckd"]_vars

\* C38: a reader suspended in poll_recv (its waker is registered) is woken by
\* the next successful receive_data and by receive_fin, which take the waker
\* and wake it; receive_fin from any receiver state leaves the state
\* ReceivedFin.
C38_SuspendedReaderIsWoken ==
    [][/\ (waker /\ IsReceiveDataStep /\ result'.res = "Ok") => ~waker'
       /\ ReceiveFin => (rcv_state' = "ReceivedFin" /\ ~waker')]_vars

\* C39: in every reachable state of the ARP cache the reverse map agrees with
\* the forward map, get_ipv4_addr(mac) = ip if and only if
\* get_link_addr(ip) = mac, and remove(ip) of a present ip never trips its
\* assertion.
C39_ReverseMapAgrees ==
    /\ \A ip \in Ipv4Addrs, mac \in MacAddresses :
          arp.rmap[mac] = ip <=> CacheGet(arp, ip) = mac
    /\ panicked # "assertion failed: self.rmap.remove(&record.link_addr).is_some()"

\* C40: with the None congestion-control variant, for any sequence of sends,
\* ACKs, duplicate ACKs and RTOs, cwnd stays at 2^32 - 1,
\* limited_transmit_cwnd_increase stays 0 and fast_retransmit_now stays false;
\* a send that fits window_size while the peer's link address is cached is
\* emitted at once; and the retransmitter never performs a fast retransmit.
C40_NoneLeavesSendToWindow ==
    [][cc.algorithm = "None" =>
          /\ cc'.cwnd = U32Max
          /\ cc'.limited_transmit_cwnd_increase = 0
          /\ ~cc'.fast_retransmit_now
          /\ (/\ IsSendStep
              /\ state = "Open"
              /\ window_size > 0
              /\ window_size >= WSub(sent_seq_no, base_seq_no) + MssBytes
              /\ ArpTryQuery) => IsFirstTransmission
          /\ ~IsFastRetransmitEmission]_vars


====
